---- MODULE Spec2Model ----
\* Verification model of the "Reach for the Lasers" step sequencer:
\* the Scale Engine (scales.ts), the Pattern Store (usePattern.ts) and the
\* Transport Scheduler (useAudioEngine.ts), as wired together by App.tsx.
EXTENDS Integers, Sequences, FiniteSets, TLC

\* ---------------------------------------------------------------------
\* Program constants
\* ---------------------------------------------------------------------
STEPS_PER_BAR == 16
TOTAL_BARS == 16
TOTAL_STEPS == STEPS_PER_BAR * TOTAL_BARS
DEFAULT_VELOCITY == 100
DEFAULT_NOTE_LENGTH == 1
DEFAULT_TEMPO == 138
DEFAULT_ROOT_NOTE == 45
MAX_HISTORY == 50
OCTAVE_RANGE == 4
MIN_TEMPO == 120
MAX_TEMPO == 160

\* ---------------------------------------------------------------------
\* Bounds of the model
\* ---------------------------------------------------------------------
\* number of history-pushing operations explored in one session
MaxOps == 3
\* number of sequencer ticks explored after one transport start
MaxTicks == 640
\* transport position up to which ticks interleave with edits and range changes
ShortRun == 20
\* number of pointer events and editor buttons handled by the chord track
MaxTrackOps == 8
\* clicks on one cell made before the history session starts
PriorToggles == 47
\* create requests the catalog server handles in one run
MaxRequests == 3
\* exports made in one session
MaxExports == 2

\* ---------------------------------------------------------------------
\* Scale Engine
\* ---------------------------------------------------------------------
SCALES ==
  [ chromatic        |-> <<0, 1, 2, 3, 4, 5, 6, 7, 8, 9, 10, 11>>,
    major            |-> <<0, 2, 4, 5, 7, 9, 11>>,
    minor            |-> <<0, 2, 3, 5, 7, 8, 10>>,
    harmonicMinor    |-> <<0, 2, 3, 5, 7, 8, 11>>,
    melodicMinor     |-> <<0, 2, 3, 5, 7, 9, 11>>,
    dorian           |-> <<0, 2, 3, 5, 7, 9, 10>>,
    phrygian         |-> <<0, 1, 3, 5, 7, 8, 10>>,
    phrygianDominant |-> <<0, 1, 4, 5, 7, 8, 10>>,
    lydian           |-> <<0, 2, 4, 6, 7, 9, 11>>,
    mixolydian       |-> <<0, 2, 4, 5, 7, 9, 10>>,
    wholeTone        |-> <<0, 2, 4, 6, 8, 10>>,
    diminished       |-> <<0, 1, 3, 4, 6, 7, 9, 10>>,
    pentatonicMajor  |-> <<0, 2, 4, 7, 9>>,
    pentatonicMinor  |-> <<0, 3, 5, 7, 10>>,
    blues            |-> <<0, 3, 5, 6, 7, 10>> ]

ScaleType == DOMAIN SCALES

Abs(x) == IF x < 0 THEN -x ELSE x

\* intervals is the 1-indexed image of the 0-indexed array scale.intervals
scaleDegreeToMidi(degree, intervals, root) ==
  LET notesPerOctave == Len(intervals)
      octave == degree \div notesPerOctave
      degreeInOctave == degree % notesPerOctave
  IN  root + octave * 12 + intervals[degreeInOctave + 1]

\* the forward scan of the loop: index i (0-based), best index and distance so far
RECURSIVE NearestScan(_, _, _, _, _)
NearestScan(intervals, noteInOctave, i, nearestIndex, minDistance) ==
  IF i >= Len(intervals) THEN nearestIndex
  ELSE LET distance == Abs(intervals[i + 1] - noteInOctave)
       IN  IF minDistance < 0 \/ distance < minDistance
           THEN NearestScan(intervals, noteInOctave, i + 1, i, distance)
           ELSE NearestScan(intervals, noteInOctave, i + 1, nearestIndex, minDistance)

\* midiToNearestScaleDegree counting twelve degrees per octave
midiToNearestScaleDegreeTwelve(midiNote, intervals, root) ==
  LET semitones == midiNote - root
      octave == semitones \div 12
      noteInOctave == ((semitones % 12) + 12) % 12
      nearestIndex == NearestScan(intervals, noteInOctave, 0, 0, -1)
  IN  octave * 12 + nearestIndex

\* midiToNearestScaleDegree with the last of the equidistant intervals winning
midiToNearestScaleDegreeLastTie(midiNote, intervals, root) ==
  LET semitones == midiNote - root
      octave == semitones \div 12
      noteInOctave == ((semitones % 12) + 12) % 12
      Distance(i) == Abs(intervals[i + 1] - noteInOctave)
      nearestIndex == CHOOSE i \in 0..(Len(intervals) - 1) :
                        \A j \in 0..(Len(intervals) - 1) :
                          /\ Distance(i) <= Distance(j)
                          /\ j > i => Distance(j) > Distance(i)
  IN  octave * Len(intervals) + nearestIndex

\* minDistance = -1 stands for Infinity
midiToNearestScaleDegree(midiNote, intervals, root) ==
  LET semitones == midiNote - root
      octave == semitones \div 12
      noteInOctave == ((semitones % 12) + 12) % 12
      nearestIndex == NearestScan(intervals, noteInOctave, 0, 0, -1)
  IN  octave * Len(intervals) + nearestIndex

\* ---------------------------------------------------------------------
\* Sequence helpers (Array.prototype.filter / map / some)
\* ---------------------------------------------------------------------
Filter(s, Test(_)) == SelectSeq(s, Test)

Map(s, F(_)) == [i \in 1..Len(s) |-> F(s[i])]

Some(s, Test(_)) == \E i \in 1..Len(s) : Test(s[i])

\* index of the first element satisfying Test (1-based), 0 when none
FindIndex(s, Test(_)) ==
  IF Some(s, Test) THEN CHOOSE i \in 1..Len(s) : Test(s[i]) /\ \A j \in 1..(i - 1) : ~Test(s[j])
  ELSE 0

RemoveAt(s, i) == SubSeq(s, 1, i - 1) \o SubSeq(s, i + 1, Len(s))

SeqMax(s) == CHOOSE m \in {s[i] : i \in 1..Len(s)} : \A i \in 1..Len(s) : s[i] <= m

SeqMin(s) == CHOOSE m \in {s[i] : i \in 1..Len(s)} : \A i \in 1..Len(s) : m <= s[i]

Min2(a, b) == IF a < b THEN a ELSE b

Max2(a, b) == IF a > b THEN a ELSE b

Note(step, pitch, velocity, length, accent) ==
  [step |-> step, pitch |-> pitch, velocity |-> velocity, length |-> length, accent |-> accent]

\* number of notes of s at position (step, pitch)
CountAt(s, step, pitch) == Cardinality({i \in 1..Len(s) : s[i].step = step /\ s[i].pitch = pitch})

\* number of occurrences of the note n (all five fields) in s
CountOf(s, n) == Cardinality({i \in 1..Len(s) : s[i] = n})

NoteRange(s) == {s[i] : i \in 1..Len(s)}

\* structural equality of two note sets: the same notes the same number of times
SameNotes(a, b) ==
  /\ Len(a) = Len(b)
  /\ \A n \in NoteRange(a) \cup NoteRange(b) : CountOf(a, n) = CountOf(b, n)

\* no two notes share (step, pitch)
Unique(s) == \A i, j \in 1..Len(s) : (s[i].step = s[j].step /\ s[i].pitch = s[j].pitch) => i = j

\* ---------------------------------------------------------------------
\* State
\* ---------------------------------------------------------------------
VARIABLES
  \* usePattern: React state and refs
  notes, scale, rootNote, tempo, chords, selectionStart, selectionEnd,
  clipboard, history, historyIndex,
  \* observation of the session: the last handler that ran, its argument, the
  \* note list it started from, and the op / undo / redo and toggle / toggle chains
  \* and whether a catalog pattern was ever loaded
  lastOp, lastArg, before, opCount, uChain, uPre, uPost, tCount, tPre, loaded,
  \* the scale before the last handler and the setScale / setScale chain
  beforeScale, sChain, sFrom, sPre,
  \* the number of snapshots shifted out of the history so far
  dropped,
  \* useAudioEngine: React state, the pattern ref, the Tone transport and sequence
  isPlaying, currentStep, isLooping, metronomeEnabled, metronomeType, patternRef,
  transportState, transportTicks, bpm, seq, seqState, playPending,
  \* observation of playback: ticks since the last start, whether the loop range and
  \* the loop mode are unchanged since then, completed traversals, the step and the triggers of the
  \* last tick, and whether stop() returned with no play() since
  tickCount, stable, traversals, tickStep, triggered, metronomeHit, stopReturned, lateTick,
  \* Scale Engine harness: a degree, its MIDI note and the degree found back
  seDegree, seMidi, seBack, sePhase,
  \* useAudioEngine: voice and effect switches, the connections between the audio
  \* nodes, and the number of synths not yet disposed
  synthType, filterEnabled, reverbEnabled, delayEnabled, connections, liveSynths,
  \* useAudioEngine: the filter state, the cutoff last written to the filter node,
  \* the ramps the last trigger asked for, and the filter sweep: its flag, the counter and
  \* the total of the updateUI closure, and the pending updateUI timeouts
  filterType, filterFreq, cutoff, ramps, filterSweepActive, sweepStep, sweepTotalSteps,
  sweepChains,
  \* observation of the effects: the last handler, the tempo of the last sweep
  \* trigger, and the sum of the timeout delays since then, in ms
  lastFx, sweepTempo, sweepElapsed,
  \* useAudioEngine: the other effect parameters (hundredths for the fractions), and
  \* the voice of the last applyPreset
  fxParams, lastPreset,
  \* ChordTrack: the chord editor (null or the edited step and marker), the duration
  \* chosen in it, and the drag: its mode, the dragged marker, and the previewed step
  \* and duration
  editingChord, selectedDuration, dragMode, dragChord, dragPreview,
  \* the number of events the chord track has handled
  trackOps,
  \* catalog server: the number of rows of the patterns table and the row inserted
  \* last, the rate limiter's hit count per client address, and the last create
  \* request: its address, its body and the status of its response
  rows, lastRow, hits, reqOrigin, reqBody, status,
  \* observation of the server: the requests handled so far, and per address the
  \* create requests that reached the handler in the current window
  requests, handled,
  \* ExportModal: the velocity curve and note length chosen, the note events of the
  \* last export and the export before it with their inputs, the number of
  \* exports, and the entries saved to the local catalog
  velocityCurve, noteLength, exported, prevExported, exports, localCatalog

storeVars == <<notes, scale, rootNote, tempo, chords, selectionStart, selectionEnd,
               clipboard, history, historyIndex>>

engineVars == <<isPlaying, currentStep, isLooping, metronomeEnabled, metronomeType, patternRef,
                transportState, transportTicks, bpm, seq, seqState, playPending>>

playVars == <<tickCount, stable, traversals, tickStep, triggered, metronomeHit, stopReturned,
              lateTick>>

scaleVars == <<seDegree, seMidi, seBack, sePhase>>

graphVars == <<synthType, filterEnabled, reverbEnabled, delayEnabled, connections, liveSynths>>

sweepVars == <<filterType, filterFreq, cutoff, ramps, filterSweepActive, sweepStep,
               sweepTotalSteps, sweepChains>>

fxVars == <<graphVars, sweepVars, lastFx, sweepTempo, sweepElapsed, fxParams, lastPreset>>

trackVars == <<editingChord, selectedDuration, dragMode, dragChord, dragPreview, trackOps>>

serverVars == <<rows, lastRow, hits, reqOrigin, reqBody, status, requests, handled>>

exportVars == <<velocityCurve, noteLength, exported, prevExported, exports, localCatalog>>

edgeVars == <<serverVars, exportVars>>

obsVars == <<lastOp, lastArg, before, opCount, uChain, uPre, uPost, tCount, tPre, loaded,
             beforeScale, sChain, sFrom, sPre, dropped>>

\* ---------------------------------------------------------------------
\* Inputs explored by the model
\* ---------------------------------------------------------------------
\* grid cells (step, pitch) the user clicks
ToggleCells == {<<0, 0>>, <<0, 1>>, <<64, 0>>}

\* scales offered by the scale selector that the store model switches between
StoreScales == {"harmonicMinor", "pentatonicMajor"}

BAR_PRESETS == {1, 2, 4, 8, 16}

\* the presets the user clicks in the store model
PresetInputs == {1, 4}

\* catalog entries: notes with non-default velocity, length and accent
CatalogPatterns ==
  { [notes |-> <<Note(0, 0, 80, 2, TRUE), Note(16, 26, 100, 1, FALSE)>>,
     scale |-> "minor", rootNote |-> 57, tempo |-> 140, hasLoop |-> FALSE,
     loopStart |-> 0, loopEnd |-> 0] }

ChordInputs == { [step |-> 0, root |-> 0, quality |-> "maj", duration |-> 16] }

\* ---------------------------------------------------------------------
\* Audio engine: the sequence effect
\* ---------------------------------------------------------------------
\* the dependencies of the sequence effect, which the tick callback closes over
SeqDeps(looping, metEnabled, metType, startBar, endBar) ==
  [isLooping |-> looping, metronomeEnabled |-> metEnabled, metronomeType |-> metType,
   loopStartStep |-> startBar * STEPS_PER_BAR, loopEndStep |-> endBar * STEPS_PER_BAR]

\* Array.from({ length: loopLength }, (_, i) => loopStartStep + i)
SeqSteps(q) ==
  LET loopLength == q.loopEndStep - q.loopStartStep
  IN  [i \in 1..Max2(loopLength, 0) |-> q.loopStartStep + (i - 1)]

\* a sequence effect that would leave the new sequence stopped
SequenceEffectNoStart(looping, metEnabled, metType, startBar, endBar) ==
  LET deps == SeqDeps(looping, metEnabled, metType, startBar, endBar)
  IN  IF deps # seq
      THEN /\ seq' = deps
           /\ seqState' = "stopped"
           /\ stable' = (stable /\ deps.isLooping = seq.isLooping
                                /\ deps.loopStartStep = seq.loopStartStep
                                /\ deps.loopEndStep = seq.loopEndStep)
      ELSE UNCHANGED <<seq, seqState, stable>>

\* the effect runs in the commit that changes one of its dependencies (they all
\* change in click handlers): the old sequence is disposed, a new one is created
\* and started at 0 when the render it belongs to is playing
SequenceEffect(looping, metEnabled, metType, startBar, endBar) ==
  LET deps == SeqDeps(looping, metEnabled, metType, startBar, endBar)
  IN  IF deps # seq
      THEN /\ seq' = deps
           /\ seqState' = IF isPlaying THEN "started" ELSE "stopped"
           /\ stable' = (stable /\ deps.isLooping = seq.isLooping
                                /\ deps.loopStartStep = seq.loopStartStep
                                /\ deps.loopEndStep = seq.loopEndStep)
      ELSE UNCHANGED <<seq, seqState, stable>>

\* handlers of usePattern that leave the loop range alone do not touch the engine
EngineUnchanged == UNCHANGED <<engineVars, playVars>>

\* handlers that move the selection re-run the sequence effect
SelectionEffect(startBar, endBar) ==
  /\ SequenceEffect(isLooping, metronomeEnabled, metronomeType, startBar, endBar)
  /\ UNCHANGED <<isPlaying, currentStep, isLooping, metronomeEnabled, metronomeType, patternRef,
                 transportState, transportTicks, playPending>>
  /\ UNCHANGED <<tickCount, traversals, tickStep, triggered, metronomeHit, stopReturned, lateTick>>

\* ---------------------------------------------------------------------
\* Pattern Store: history
\* ---------------------------------------------------------------------
\* history is the 1-indexed image of historyRef.current, index is historyIndexRef.current (0-based)
\* pushHistory without the limit on the history size
pushHistoryUnbounded(h, index, currentNotes) ==
  LET cut == IF index < Len(h) - 1 THEN SubSeq(h, 1, index + 1) ELSE h
      pushed == Append(cut, currentNotes)
  IN  [history |-> pushed, index |-> Len(pushed) - 1, shifted |-> FALSE]

pushHistory(h, index, currentNotes) ==
  LET cut == IF index < Len(h) - 1 THEN SubSeq(h, 1, index + 1) ELSE h
      pushed == Append(cut, currentNotes)
  IN  IF Len(pushed) > MAX_HISTORY
      THEN [history |-> Tail(pushed), index |-> index, shifted |-> TRUE]
      ELSE [history |-> pushed, index |-> Len(pushed) - 1, shifted |-> FALSE]

\* the op / undo / redo chain and the double-toggle chain seen so far
Observe(op, arg, mutating) ==
  /\ lastOp' = op
  /\ lastArg' = arg
  /\ before' = notes
  /\ opCount' = IF mutating THEN opCount + 1 ELSE opCount
  /\ uChain' = IF mutating THEN 1
               ELSE IF op = "undo" /\ uChain = 1 THEN 2
               ELSE IF op = "redo" /\ uChain = 2 THEN 3
               ELSE 0
  /\ uPre' = IF op = "undo" /\ uChain = 1 THEN before
             ELSE IF op = "redo" /\ uChain = 2 THEN uPre
             ELSE <<>>
  /\ uPost' = IF op = "undo" /\ uChain = 1 THEN notes
              ELSE IF op = "redo" /\ uChain = 2 THEN uPost
              ELSE <<>>
  /\ tCount' = IF op # "toggleNote" THEN 0
               ELSE IF lastOp = "toggleNote" /\ lastArg = arg THEN 2
               ELSE 1
  /\ tPre' = IF op = "toggleNote" /\ lastOp = "toggleNote" /\ lastArg = arg
             THEN before ELSE <<>>
  /\ loaded' = (loaded \/ op = "loadPattern")
  /\ beforeScale' = scale
  /\ sChain' = IF op # "setScale" THEN 0
               ELSE IF lastOp = "setScale" THEN 2
               ELSE 1
  /\ sFrom' = IF op = "setScale" /\ lastOp = "setScale" THEN beforeScale ELSE "none"
  /\ sPre' = IF op = "setScale" /\ lastOp = "setScale" THEN before ELSE <<>>
  /\ dropped' = IF mutating /\ pushHistory(history, historyIndex, notes).shifted
                THEN dropped + 1 ELSE dropped
  /\ UNCHANGED <<scaleVars, fxVars, trackVars, edgeVars>>

\* setNotesWithHistory with a push that keeps the snapshots after the cursor
setNotesWithHistoryKeepTail(op, arg, nextNotes) ==
  /\ opCount < MaxOps
  /\ history' = Append(history, notes)
  /\ historyIndex' = historyIndex + 1
  /\ notes' = nextNotes
  /\ Observe(op, arg, TRUE)

\* setNotesState(prev => { pushHistory(prev); return nextNotes })
setNotesWithHistory(op, arg, nextNotes) ==
  /\ opCount < MaxOps
  /\ LET pushed == pushHistory(history, historyIndex, notes)
     IN  /\ history' = pushed.history
         /\ historyIndex' = pushed.index
  /\ notes' = nextNotes
  /\ Observe(op, arg, TRUE)

undo ==
  /\ historyIndex > 0
  /\ historyIndex' = historyIndex - 1
  /\ notes' = history[historyIndex]
  /\ Observe("undo", <<>>, FALSE)
  /\ UNCHANGED <<scale, rootNote, tempo, chords, selectionStart, selectionEnd, clipboard, history>>
  /\ EngineUnchanged

redo ==
  /\ historyIndex < Len(history) - 1
  /\ historyIndex' = historyIndex + 1
  /\ notes' = history[historyIndex + 2]
  /\ Observe("redo", <<>>, FALSE)
  /\ UNCHANGED <<scale, rootNote, tempo, chords, selectionStart, selectionEnd, clipboard, history>>
  /\ EngineUnchanged

\* ---------------------------------------------------------------------
\* Pattern Store: note operations
\* ---------------------------------------------------------------------
\* ToggleResult looking for an existing note by its step alone
ToggleResultByStep(prev, step, pitch) ==
  LET At(n) == n.step = step
      existingIndex == FindIndex(prev, At)
  IN  IF existingIndex >= 1
      THEN RemoveAt(prev, existingIndex)
      ELSE Append(prev, Note(step, pitch, DEFAULT_VELOCITY, DEFAULT_NOTE_LENGTH, FALSE))

ToggleResult(prev, step, pitch) ==
  LET At(n) == n.step = step /\ n.pitch = pitch
      existingIndex == FindIndex(prev, At)
  IN  IF existingIndex >= 1
      THEN RemoveAt(prev, existingIndex)
      ELSE Append(prev, Note(step, pitch, DEFAULT_VELOCITY, DEFAULT_NOTE_LENGTH, FALSE))

toggleNote(step, pitch) ==
  /\ setNotesWithHistory("toggleNote", <<step, pitch>>, ToggleResult(notes, step, pitch))
  /\ UNCHANGED <<scale, rootNote, tempo, chords, selectionStart, selectionEnd, clipboard>>
  /\ EngineUnchanged

setNotes(newNotes) ==
  /\ setNotesWithHistory("setNotes", <<>>, newNotes)
  /\ UNCHANGED <<scale, rootNote, tempo, chords, selectionStart, selectionEnd, clipboard>>
  /\ EngineUnchanged

clearPattern ==
  /\ setNotesWithHistory("clearPattern", <<>>, <<>>)
  /\ chords' = <<>>
  /\ UNCHANGED <<scale, rootNote, tempo, selectionStart, selectionEnd, clipboard>>
  /\ EngineUnchanged

\* insertion of x into the step-sorted list s (filter + push + sort by step)
RECURSIVE SortedInsert(_, _)
SortedInsert(s, x) ==
  IF s = <<>> THEN <<x>>
  ELSE IF x.step < Head(s).step THEN <<x>> \o s
  ELSE <<Head(s)>> \o SortedInsert(Tail(s), x)

\* [...prev.filter(c => c.step !== chord.step), chord].sort((a, b) => a.step - b.step)
AddChordResult(prev, chord) ==
  LET NotAt(c) == c.step # chord.step
  IN  SortedInsert(Filter(prev, NotAt), chord)

\* prev.filter(c => c.step !== step)
RemoveChordResult(prev, step) ==
  LET NotAt(c) == c.step # step
  IN  Filter(prev, NotAt)

addChord(chord) ==
  /\ chords' = AddChordResult(chords, chord)
  /\ chords' # chords
  /\ Observe("addChord", <<>>, FALSE)
  /\ UNCHANGED <<notes, scale, rootNote, tempo, selectionStart, selectionEnd, clipboard,
                 history, historyIndex>>
  /\ EngineUnchanged

removeChord(step) ==
  /\ chords' = RemoveChordResult(chords, step)
  /\ chords' # chords
  /\ Observe("removeChord", <<>>, FALSE)
  /\ UNCHANGED <<notes, scale, rootNote, tempo, selectionStart, selectionEnd, clipboard,
                 history, historyIndex>>
  /\ EngineUnchanged

\* a scale change that would keep the raw degree number under the new scale
RequantizeRawDegree(pitch, oldScale, newScale, root) == pitch

\* the re-quantisation of one degree from the old scale to the new one
RequantizePitch(pitch, oldScale, newScale, root) ==
  LET oldIntervals == SCALES[oldScale]
      notesPerOctave == Len(oldIntervals)
      octave == pitch \div notesPerOctave
      degreeInOctave == pitch % notesPerOctave
      midiNote == root + octave * 12 + oldIntervals[degreeInOctave + 1]
  IN  midiToNearestScaleDegree(midiNote, SCALES[newScale], root)

SetScaleResult(prev, oldScale, newScale, root) ==
  LET Requant(n) == [n EXCEPT !.pitch = RequantizePitch(n.pitch, oldScale, newScale, root)]
  IN  Map(prev, Requant)

setScale(newScale) ==
  /\ setNotesWithHistory("setScale", <<>>, SetScaleResult(notes, scale, newScale, rootNote))
  /\ scale' = newScale
  /\ UNCHANGED <<rootNote, tempo, chords, selectionStart, selectionEnd, clipboard>>
  /\ EngineUnchanged

\* ---------------------------------------------------------------------
\* Pattern Store: selection operations
\* ---------------------------------------------------------------------
getSelectionSteps ==
  [startStep |-> selectionStart * STEPS_PER_BAR, endStep |-> selectionEnd * STEPS_PER_BAR]

InRange(n, startStep, endStep) == n.step >= startStep /\ n.step < endStep

SelectedNotes(prev, startStep, endStep) ==
  LET In(n) == InRange(n, startStep, endStep) IN Filter(prev, In)

OutsideNotes(prev, startStep, endStep) ==
  LET Out(n) == n.step < startStep \/ n.step >= endStep IN Filter(prev, Out)

ShiftSteps(s, delta) ==
  LET Shift(n) == [n EXCEPT !.step = n.step + delta] IN Map(s, Shift)

BelowTotal(s) ==
  LET Fits(n) == n.step < TOTAL_STEPS IN Filter(s, Fits)

\* the selection normalised to start at step 0
ClipboardOf(prev, startStep, endStep) ==
  ShiftSteps(SelectedNotes(prev, startStep, endStep), 0 - startStep)

copySelection ==
  /\ clipboard' = ClipboardOf(notes, getSelectionSteps.startStep, getSelectionSteps.endStep)
  /\ clipboard' # clipboard
  /\ Observe("copySelection", <<>>, FALSE)
  /\ UNCHANGED <<notes, scale, rootNote, tempo, chords, selectionStart, selectionEnd,
                 history, historyIndex>>
  /\ EngineUnchanged

cutSelection ==
  /\ clipboard' = ClipboardOf(notes, getSelectionSteps.startStep, getSelectionSteps.endStep)
  /\ setNotesWithHistory("cutSelection", <<>>,
        OutsideNotes(notes, getSelectionSteps.startStep, getSelectionSteps.endStep))
  /\ UNCHANGED <<scale, rootNote, tempo, chords, selectionStart, selectionEnd>>
  /\ EngineUnchanged

\* a paste that would put the clipboard at the start of the pattern
PasteAtZero(prev, clip, startStep) ==
  LET pastedNotes == BelowTotal(clip)
      pasteLength == SeqMax([i \in 1..Len(clip) |-> clip[i].step]) + 1
      filtered == OutsideNotes(prev, startStep, startStep + pasteLength)
  IN  filtered \o pastedNotes

PasteResult(prev, clip, startStep) ==
  LET pastedNotes == BelowTotal(ShiftSteps(clip, startStep))
      pasteLength == SeqMax([i \in 1..Len(clip) |-> clip[i].step]) + 1
      filtered == OutsideNotes(prev, startStep, startStep + pasteLength)
  IN  filtered \o pastedNotes

pasteAtSelection ==
  /\ Len(clipboard) # 0
  /\ setNotesWithHistory("pasteAtSelection", <<>>,
        PasteResult(notes, clipboard, getSelectionSteps.startStep))
  /\ UNCHANGED <<scale, rootNote, tempo, chords, selectionStart, selectionEnd, clipboard>>
  /\ EngineUnchanged

DuplicateResult(prev, startStep, endStep) ==
  LET selectionLength == endStep - startStep
      duplicatedNotes == BelowTotal(ShiftSteps(SelectedNotes(prev, startStep, endStep), selectionLength))
  IN  prev \o duplicatedNotes

duplicateSelection ==
  /\ setNotesWithHistory("duplicateSelection", <<>>,
        DuplicateResult(notes, getSelectionSteps.startStep, getSelectionSteps.endStep))
  /\ selectionEnd' = Min2(selectionEnd + (selectionEnd - selectionStart), 16)
  /\ UNCHANGED <<scale, rootNote, tempo, chords, selectionStart, clipboard>>
  /\ SelectionEffect(selectionStart, Min2(selectionEnd + (selectionEnd - selectionStart), 16))
  /\ UNCHANGED bpm

\* LoopPush without the test for an occupied position
LoopPushUnchecked(newNotes, n, currentOffset) ==
  LET newStep == n.step + currentOffset
  IN  IF newStep < TOTAL_STEPS
      THEN Append(newNotes, [n EXCEPT !.step = newStep])
      ELSE newNotes

\* one copy of note n at the current offset: pushed unless the position is taken
LoopPush(newNotes, n, currentOffset) ==
  LET newStep == n.step + currentOffset
      Taken(existing) == existing.step = newStep /\ existing.pitch = n.pitch
  IN  IF newStep < TOTAL_STEPS /\ ~Some(newNotes, Taken)
      THEN Append(newNotes, [n EXCEPT !.step = newStep])
      ELSE newNotes

\* selectedNotes.forEach at one offset, from the i-th selected note on
RECURSIVE LoopForEach(_, _, _, _)
LoopForEach(newNotes, selectedNotes, i, currentOffset) ==
  IF i > Len(selectedNotes) THEN newNotes
  ELSE LET pushed == LoopPush(newNotes, selectedNotes[i], currentOffset)
       IN  IF Len(pushed) >= Len(newNotes)
           THEN LoopForEach(pushed, selectedNotes, i + 1, currentOffset)
           ELSE pushed

\* the while loop over the offsets
RECURSIVE LoopWhile(_, _, _, _, _)
LoopWhile(newNotes, selectedNotes, startStep, selectionLength, currentOffset) ==
  IF startStep + currentOffset < TOTAL_STEPS
  THEN LET filled == LoopForEach(newNotes, selectedNotes, 1, currentOffset)
       IN  IF Len(filled) >= Len(newNotes)
           THEN LoopWhile(filled, selectedNotes, startStep, selectionLength,
                          currentOffset + selectionLength)
           ELSE filled
  ELSE newNotes

\* a fill that would repeat the selection once only
LoopResultOnce(prev, startStep, endStep) ==
  LoopForEach(prev, SelectedNotes(prev, startStep, endStep), 1, endStep - startStep)

LoopResult(prev, startStep, endStep) ==
  LoopWhile(prev, SelectedNotes(prev, startStep, endStep), startStep, endStep - startStep,
            endStep - startStep)

loopSelection ==
  /\ getSelectionSteps.endStep - getSelectionSteps.startStep > 0
  /\ setNotesWithHistory("loopSelection", <<>>,
        LoopResult(notes, getSelectionSteps.startStep, getSelectionSteps.endStep))
  /\ UNCHANGED <<scale, rootNote, tempo, chords, selectionStart, selectionEnd, clipboard>>
  /\ EngineUnchanged

clearSelection ==
  /\ setNotesWithHistory("clearSelection", <<>>,
        OutsideNotes(notes, getSelectionSteps.startStep, getSelectionSteps.endStep))
  /\ UNCHANGED <<scale, rootNote, tempo, chords, selectionStart, selectionEnd, clipboard>>
  /\ EngineUnchanged

\* the notes addOctaveDown adds: the lowest notes of the selection one octave lower
OctaveDownNotes(prev, startStep, endStep, notesPerOctave) ==
  LET selectionNotes == SelectedNotes(prev, startStep, endStep)
      lowestPitch == SeqMin([i \in 1..Len(selectionNotes) |-> selectionNotes[i].pitch])
      Lowest(n) == n.pitch = lowestPitch
      lowestNotes == Filter(selectionNotes, Lowest)
      Addable(n) ==
        /\ n.pitch - notesPerOctave >= 0
        /\ ~\E i \in 1..Len(prev) : prev[i].step = n.step /\ prev[i].pitch = n.pitch - notesPerOctave
      Lower(n) == [n EXCEPT !.pitch = n.pitch - notesPerOctave]
  IN  IF Len(selectionNotes) = 0 THEN <<>> ELSE Map(Filter(lowestNotes, Addable), Lower)

addOctaveDown ==
  LET newNotes == OctaveDownNotes(notes, getSelectionSteps.startStep, getSelectionSteps.endStep,
                                  Len(SCALES[scale]))
  IN  /\ Len(newNotes) > 0
      /\ setNotesWithHistory("addOctaveDown", <<>>, notes \o newNotes)
      /\ UNCHANGED <<scale, rootNote, tempo, chords, selectionStart, selectionEnd, clipboard>>
      /\ EngineUnchanged

\* a nudge that would wrap at the end of the pattern instead of the selection
NudgeLeftWholePattern(prev, startStep, endStep) ==
  LET Nudge(n) == IF InRange(n, startStep, endStep)
                  THEN [n EXCEPT !.step = IF n.step - 1 < startStep THEN TOTAL_STEPS - 1
                                          ELSE n.step - 1]
                  ELSE n
  IN  Map(prev, Nudge)

NudgeLeftResult(prev, startStep, endStep) ==
  LET Nudge(n) == IF InRange(n, startStep, endStep)
                  THEN [n EXCEPT !.step = IF n.step - 1 < startStep THEN endStep - 1 ELSE n.step - 1]
                  ELSE n
  IN  Map(prev, Nudge)

NudgeRightResult(prev, startStep, endStep) ==
  LET Nudge(n) == IF InRange(n, startStep, endStep)
                  THEN [n EXCEPT !.step = IF n.step + 1 >= endStep THEN startStep ELSE n.step + 1]
                  ELSE n
  IN  Map(prev, Nudge)

nudgeLeft ==
  /\ getSelectionSteps.endStep - getSelectionSteps.startStep > 0
  /\ setNotesWithHistory("nudgeLeft", <<>>,
        NudgeLeftResult(notes, getSelectionSteps.startStep, getSelectionSteps.endStep))
  /\ UNCHANGED <<scale, rootNote, tempo, chords, selectionStart, selectionEnd, clipboard>>
  /\ EngineUnchanged

nudgeRight ==
  /\ getSelectionSteps.endStep - getSelectionSteps.startStep > 0
  /\ setNotesWithHistory("nudgeRight", <<>>,
        NudgeRightResult(notes, getSelectionSteps.startStep, getSelectionSteps.endStep))
  /\ UNCHANGED <<scale, rootNote, tempo, chords, selectionStart, selectionEnd, clipboard>>
  /\ EngineUnchanged

TransposeUpResult(prev, startStep, endStep, maxPitch) ==
  LET Up(n) == IF InRange(n, startStep, endStep) /\ n.pitch + 1 <= maxPitch
               THEN [n EXCEPT !.pitch = n.pitch + 1] ELSE n
  IN  Map(prev, Up)

TransposeDownResult(prev, startStep, endStep) ==
  LET Down(n) == IF InRange(n, startStep, endStep) /\ n.pitch - 1 >= 0
                 THEN [n EXCEPT !.pitch = n.pitch - 1] ELSE n
  IN  Map(prev, Down)

transposeUp ==
  /\ setNotesWithHistory("transposeUp", <<>>,
        TransposeUpResult(notes, getSelectionSteps.startStep, getSelectionSteps.endStep,
                          Len(SCALES[scale]) * 4 - 1))
  /\ UNCHANGED <<scale, rootNote, tempo, chords, selectionStart, selectionEnd, clipboard>>
  /\ EngineUnchanged

transposeDown ==
  /\ setNotesWithHistory("transposeDown", <<>>,
        TransposeDownResult(notes, getSelectionSteps.startStep, getSelectionSteps.endStep))
  /\ UNCHANGED <<scale, rootNote, tempo, chords, selectionStart, selectionEnd, clipboard>>
  /\ EngineUnchanged

\* ---------------------------------------------------------------------
\* App: bar presets and catalog load
\* ---------------------------------------------------------------------
handlePresetChange(bars) ==
  /\ selectionStart' = 0
  /\ selectionEnd' = bars
  /\ <<selectionStart', selectionEnd'>> # <<selectionStart, selectionEnd>>
  /\ Observe("handlePresetChange", <<>>, FALSE)
  /\ UNCHANGED <<notes, scale, rootNote, tempo, chords, clipboard, history, historyIndex>>
  /\ SelectionEffect(0, bars)
  /\ UNCHANGED bpm

\* Math.round(x / 2) for an integer x: halves round towards plus infinity
RoundHalf(x) == (x + 1) \div 2

\* the incoming notes shifted to the middle of the pitch range, clamped to it
CenteredNotes(cp) ==
  LET pitches == [i \in 1..Len(cp.notes) |-> cp.notes[i].pitch]
      minPitch == SeqMin(pitches)
      maxPitch == SeqMax(pitches)
      pitchCount == Len(SCALES[cp.scale]) * 4
      offset == RoundHalf(pitchCount - (minPitch + maxPitch))
      Center(n) == [n EXCEPT !.pitch = Max2(0, Min2(pitchCount - 1, n.pitch + offset))]
  IN  Map(cp.notes, Center)

\* Math.ceil(tickStep / STEPS_PER_BAR)
PatternBars(cp) ==
  LET lastStep == SeqMax([i \in 1..Len(cp.notes) |-> cp.notes[i].step + cp.notes[i].length])
  IN  (lastStep + STEPS_PER_BAR - 1) \div STEPS_PER_BAR

loadPattern(p) ==
  /\ setNotesWithHistory("loadPattern", <<>>, p.notes)
  /\ scale' = p.scale
  /\ rootNote' = p.rootNote
  /\ tempo' = p.tempo

handleLoadFromCatalog(cp) ==
  /\ loadPattern([cp EXCEPT !.notes = CenteredNotes(cp)])
  /\ IF cp.hasLoop
     THEN /\ selectionStart' = cp.loopStart
          /\ selectionEnd' = cp.loopEnd
     ELSE /\ selectionStart' = 0
          /\ selectionEnd' = Max2(1, PatternBars(cp))
  /\ SelectionEffect(selectionStart', selectionEnd')
  /\ bpm' = cp.tempo
  /\ UNCHANGED <<chords, clipboard>>

\* ---------------------------------------------------------------------
\* Audio engine: transport
\* ---------------------------------------------------------------------
\* the pattern object of the current render
Pattern == [notes |-> notes, scale |-> scale, rootNote |-> rootNote, tempo |-> tempo]

\* useEffect(() => { patternRef.current = pattern }, [pattern])
UpdatePatternRef ==
  /\ patternRef # Pattern
  /\ patternRef' = Pattern
  /\ Observe("updatePatternRef", <<>>, FALSE)
  /\ UNCHANGED <<isPlaying, currentStep, isLooping, metronomeEnabled, metronomeType,
                 transportState, transportTicks, bpm, seq, seqState, playPending>>
  /\ UNCHANGED <<storeVars, playVars>>

\* the Transport button shows Play only while not playing; play() then awaits Tone.start()
PlayCall ==
  /\ ~isPlaying
  /\ playPending' = TRUE
  /\ stopReturned' = FALSE
  /\ Observe("play", <<>>, FALSE)
  /\ UNCHANGED <<isPlaying, currentStep, isLooping, metronomeEnabled, metronomeType, patternRef,
                 transportState, transportTicks, bpm, seq, seqState>>
  /\ UNCHANGED <<tickCount, stable, traversals, tickStep, triggered, metronomeHit, lateTick>>
  /\ UNCHANGED storeVars

\* Tone.start() resolved: the rest of play()
PlayResolve ==
  /\ playPending
  /\ playPending' = FALSE
  /\ bpm' = tempo
  /\ seqState' = "started"
  /\ transportState' = "started"
  /\ isPlaying' = TRUE
  /\ tickCount' = 0
  /\ traversals' = 0
  /\ stable' = TRUE
  /\ Observe("playStarted", <<>>, FALSE)
  /\ UNCHANGED <<currentStep, isLooping, metronomeEnabled, metronomeType, patternRef,
                 transportTicks, seq>>
  /\ UNCHANGED <<tickStep, triggered, metronomeHit, stopReturned, lateTick>>
  /\ UNCHANGED storeVars

\* a rejected Tone.start() after which play() still marks the engine as playing
PlayRejectMarksPlaying ==
  /\ playPending
  /\ playPending' = FALSE
  /\ isPlaying' = TRUE
  /\ Observe("playFailed", <<>>, FALSE)
  /\ UNCHANGED <<currentStep, isLooping, metronomeEnabled, metronomeType, patternRef,
                 transportState, transportTicks, bpm, seq, seqState>>
  /\ UNCHANGED playVars
  /\ UNCHANGED storeVars

\* Tone.start() rejected: play() throws before touching the sequence or the transport
PlayReject ==
  /\ playPending
  /\ playPending' = FALSE
  /\ Observe("playFailed", <<>>, FALSE)
  /\ UNCHANGED <<isPlaying, currentStep, isLooping, metronomeEnabled, metronomeType, patternRef,
                 transportState, transportTicks, bpm, seq, seqState>>
  /\ UNCHANGED playVars
  /\ UNCHANGED storeVars

\* stop() that forgets to stop the transport and the sequence
stopLeavingTransport ==
  /\ isPlaying
  /\ isPlaying' = FALSE
  /\ currentStep' = -1
  /\ stopReturned' = TRUE
  /\ Observe("stop", <<>>, FALSE)
  /\ UNCHANGED <<isLooping, metronomeEnabled, metronomeType, patternRef, bpm, seq, playPending,
                 transportTicks, transportState, seqState>>
  /\ UNCHANGED <<tickCount, stable, traversals, tickStep, triggered, metronomeHit, lateTick>>
  /\ UNCHANGED storeVars

\* the Transport button shows Stop only while playing
stop ==
  /\ isPlaying
  /\ transportState' = "stopped"
  /\ transportTicks' = 0
  /\ seqState' = "stopped"
  /\ isPlaying' = FALSE
  /\ currentStep' = -1
  /\ stopReturned' = TRUE
  /\ Observe("stop", <<>>, FALSE)
  /\ UNCHANGED <<isLooping, metronomeEnabled, metronomeType, patternRef, bpm, seq, playPending>>
  /\ UNCHANGED <<tickCount, stable, traversals, tickStep, triggered, metronomeHit, lateTick>>
  /\ UNCHANGED storeVars

\* what the tick callback asks the synth to play for one note
Trigger(note, p) ==
  [midi |-> scaleDegreeToMidi(note.pitch, SCALES[p.scale], p.rootNote),
   notation |-> note.length * 16,
   velocity |-> note.velocity]

\* the duration Tone gives the notation "<notation>n" at a tempo, in seconds, as
\* a fraction: a whole note (four beats of 60 / bpm seconds) divided by notation
NotationSeconds(notation, tempoBpm) == [num |-> 4 * 60, den |-> notation * tempoBpm]

\* const velocity = note.velocity / 127, as a fraction
TriggerVelocity(t) == [num |-> t.velocity, den |-> 127]

NotesAtStep(p, step) ==
  LET At(n) == n.step = step IN Filter(p.notes, At)

TriggersAt(p, step) ==
  LET Play(n) == Trigger(n, p) IN Map(NotesAtStep(p, step), Play)

\* the metronome voice the callback of sequence q triggers at a step
MetronomeAt(q, step) ==
  IF q.metronomeEnabled /\ step % 4 = 0
  THEN LET isDownbeat == (step - q.loopStartStep) % 16 = 0
       IN  IF q.metronomeType = "909"
           THEN (IF isDownbeat THEN "kick909-1" ELSE "kick909-0.7")
           ELSE (IF isDownbeat THEN "click-C2" ELSE "click-C3")
  ELSE "none"

\* a sequence that stays on its last step instead of wrapping round
StepAtNoWrap(q, ticks) == SeqSteps(q)[Min2(ticks, Len(SeqSteps(q)) - 1) + 1]

\* the step the started sequence delivers at the transport position ticks:
\* a looping Tone.Sequence started at 0 plays steps[ticks mod steps.length]
StepAt(q, ticks) == SeqSteps(q)[(ticks % Len(SeqSteps(q))) + 1]

\* a callback without the non-looping stop
AutoStopsNever(q, step) == FALSE

\* if (step === loopEndStep - 1 && !isLooping)
AutoStops(q, step) == step = q.loopEndStep - 1 /\ ~q.isLooping

\* the sequence callback without the setCurrentStep(-1) of the non-looping stop
TickLeavingStep ==
  /\ transportState = "started"
  /\ seqState = "started"
  /\ Len(SeqSteps(seq)) > 0
  /\ transportTicks < MaxTicks
  /\ LET step == StepAt(seq, transportTicks)
         last == step = seq.loopEndStep - 1
     IN  /\ triggered' = TriggersAt(patternRef, step)
         /\ metronomeHit' = MetronomeAt(seq, step)
         /\ tickStep' = step
         /\ tickCount' = tickCount + 1
         /\ traversals' = IF last THEN traversals + 1 ELSE traversals
         /\ currentStep' = step
         /\ IF AutoStops(seq, step)
            THEN /\ transportState' = "stopped"
                 /\ transportTicks' = 0
                 /\ isPlaying' = FALSE
            ELSE /\ transportTicks' = transportTicks + 1
                 /\ UNCHANGED <<transportState, isPlaying>>
  /\ lateTick' = (lateTick \/ stopReturned)
  /\ Observe("tick", <<>>, FALSE)
  /\ UNCHANGED <<isLooping, metronomeEnabled, metronomeType, patternRef, bpm, seq, seqState,
                 playPending>>
  /\ UNCHANGED <<stable, stopReturned>>
  /\ UNCHANGED storeVars

\* one invocation of the sequence callback
Tick ==
  /\ transportState = "started"
  /\ seqState = "started"
  /\ Len(SeqSteps(seq)) > 0
  /\ transportTicks < MaxTicks
  /\ LET step == StepAt(seq, transportTicks)
         last == step = seq.loopEndStep - 1
     IN  /\ triggered' = TriggersAt(patternRef, step)
         /\ metronomeHit' = MetronomeAt(seq, step)
         /\ tickStep' = step
         /\ tickCount' = tickCount + 1
         /\ traversals' = IF last THEN traversals + 1 ELSE traversals
         /\ IF AutoStops(seq, step)
            THEN /\ transportState' = "stopped"
                 /\ transportTicks' = 0
                 /\ isPlaying' = FALSE
                 /\ currentStep' = -1
            ELSE /\ transportTicks' = transportTicks + 1
                 /\ currentStep' = step
                 /\ UNCHANGED <<transportState, isPlaying>>
  /\ lateTick' = (lateTick \/ stopReturned)
  /\ Observe("tick", <<>>, FALSE)
  /\ UNCHANGED <<isLooping, metronomeEnabled, metronomeType, patternRef, bpm, seq, seqState,
                 playPending>>
  /\ UNCHANGED <<stable, stopReturned>>
  /\ UNCHANGED storeVars

setIsLooping(looping) ==
  /\ looping # isLooping
  /\ isLooping' = looping
  /\ SequenceEffect(looping, metronomeEnabled, metronomeType, selectionStart, selectionEnd)
  /\ Observe("setIsLooping", <<>>, FALSE)
  /\ UNCHANGED <<isPlaying, currentStep, metronomeEnabled, metronomeType, patternRef,
                 transportState, transportTicks, bpm, playPending>>
  /\ UNCHANGED <<tickCount, traversals, tickStep, triggered, metronomeHit, stopReturned, lateTick>>
  /\ UNCHANGED storeVars

setMetronomeEnabled(enabled) ==
  /\ enabled # metronomeEnabled
  /\ metronomeEnabled' = enabled
  /\ SequenceEffect(isLooping, enabled, metronomeType, selectionStart, selectionEnd)
  /\ Observe("setMetronomeEnabled", <<>>, FALSE)
  /\ UNCHANGED <<isPlaying, currentStep, isLooping, metronomeType, patternRef,
                 transportState, transportTicks, bpm, playPending>>
  /\ UNCHANGED <<tickCount, traversals, tickStep, triggered, metronomeHit, stopReturned, lateTick>>
  /\ UNCHANGED storeVars

setMetronomeType(type) ==
  /\ type # metronomeType
  /\ metronomeType' = type
  /\ SequenceEffect(isLooping, metronomeEnabled, type, selectionStart, selectionEnd)
  /\ Observe("setMetronomeType", <<>>, FALSE)
  /\ UNCHANGED <<isPlaying, currentStep, isLooping, metronomeEnabled, patternRef,
                 transportState, transportTicks, bpm, playPending>>
  /\ UNCHANGED <<tickCount, traversals, tickStep, triggered, metronomeHit, stopReturned, lateTick>>
  /\ UNCHANGED storeVars

\* ---------------------------------------------------------------------
\* Audio engine: synth and effect routing
\* ---------------------------------------------------------------------
\* SYNTH_PRESETS; delayFeedback, delayMix, reverbDecay and reverbMix in hundredths
SYNTH_PRESETS ==
  [acidDark       |-> [filterEnabled |-> TRUE, filterType |-> "lowpass", filterFreq |-> 800,
                       filterQ |-> 6, delayEnabled |-> TRUE, delayTime |-> "8n",
                       delayFeedback |-> 45, delayMix |-> 35, reverbEnabled |-> TRUE,
                       reverbDecay |-> 250, reverbMix |-> 30],
   acidDarkDeep   |-> [filterEnabled |-> TRUE, filterType |-> "lowpass", filterFreq |-> 500,
                       filterQ |-> 8, delayEnabled |-> TRUE, delayTime |-> "4n",
                       delayFeedback |-> 50, delayMix |-> 30, reverbEnabled |-> TRUE,
                       reverbDecay |-> 350, reverbMix |-> 40],
   acidDarkGritty |-> [filterEnabled |-> TRUE, filterType |-> "lowpass", filterFreq |-> 1000,
                       filterQ |-> 10, delayEnabled |-> TRUE, delayTime |-> "16n",
                       delayFeedback |-> 40, delayMix |-> 25, reverbEnabled |-> TRUE,
                       reverbDecay |-> 200, reverbMix |-> 25],
   acidDarkHollow |-> [filterEnabled |-> TRUE, filterType |-> "bandpass", filterFreq |-> 700,
                       filterQ |-> 5, delayEnabled |-> TRUE, delayTime |-> "8n.",
                       delayFeedback |-> 55, delayMix |-> 40, reverbEnabled |-> TRUE,
                       reverbDecay |-> 400, reverbMix |-> 45],
   acidDarkSub    |-> [filterEnabled |-> TRUE, filterType |-> "lowpass", filterFreq |-> 400,
                       filterQ |-> 4, delayEnabled |-> TRUE, delayTime |-> "4n",
                       delayFeedback |-> 35, delayMix |-> 20, reverbEnabled |-> TRUE,
                       reverbDecay |-> 300, reverbMix |-> 35]]

\* the six parameters of a preset that the model keeps in fxParams
PresetParams(preset) ==
  [filterQ |-> preset.filterQ, delayTime |-> preset.delayTime,
   delayFeedback |-> preset.delayFeedback, delayMix |-> preset.delayMix,
   reverbDecay |-> preset.reverbDecay, reverbMix |-> preset.reverbMix]

\* the voices the user picks in the routing model
SynthInputs == {"acidDark", "acidDarkHollow"}

\* the connections the routing effect makes for a new synth: the series chain
\* Synth -> [Filter] -> [Reverb] -> [Delay mix] -> Destination
ChainEdges(filterOn, reverbOn, delayOn) ==
  LET afterFilter == IF filterOn THEN "filter" ELSE "synth"
      afterReverb == IF reverbOn THEN "reverb" ELSE afterFilter
  IN  (IF filterOn THEN {<<"synth", "filter">>} ELSE {})
      \cup (IF reverbOn THEN {<<afterFilter, "reverb">>} ELSE {})
      \cup (IF delayOn
            THEN {<<afterReverb, "dryGain">>, <<afterReverb, "delay">>,
                  <<"delay", "delayGain">>, <<"dryGain", "destination">>,
                  <<"delayGain", "destination">>}
            ELSE {<<afterReverb, "destination">>})

\* the routing effect: disposing the old synth removes the connections that
\* leave it; the effect nodes keep theirs; connecting twice changes nothing
RoutingEffect(conn, filterOn, reverbOn, delayOn) ==
  {e \in conn : e[1] # "synth"} \cup ChainEdges(filterOn, reverbOn, delayOn)

\* the routing effect runs when one of its dependencies changed
Reroute(type, filterOn, reverbOn, delayOn) ==
  IF <<type, filterOn, reverbOn, delayOn>> # <<synthType, filterEnabled, reverbEnabled, delayEnabled>>
  THEN /\ connections' = RoutingEffect(connections, filterOn, reverbOn, delayOn)
       /\ liveSynths' = (liveSynths - 1) + 1
  ELSE UNCHANGED <<connections, liveSynths>>

\* handlers of the effects leave the pattern store, the transport and the sweep alone
FxFrame == UNCHANGED <<storeVars, obsVars, engineVars, playVars, scaleVars, trackVars, edgeVars>>

SweepFrame == UNCHANGED <<ramps, filterSweepActive, sweepStep, sweepTotalSteps, sweepChains,
                          sweepTempo, sweepElapsed>>

ParamFrame == UNCHANGED <<fxParams, lastPreset>>

\* a filter switch that would also give up a running sweep
setFilterEnabledCancelling(enabled) ==
  /\ enabled # filterEnabled
  /\ filterEnabled' = enabled
  /\ Reroute(synthType, enabled, reverbEnabled, delayEnabled)
  /\ lastFx' = "setFilterEnabled"
  /\ filterSweepActive' = (enabled /\ filterSweepActive)
  /\ sweepChains' = IF enabled THEN sweepChains ELSE 0
  /\ UNCHANGED <<synthType, reverbEnabled, delayEnabled, filterType, filterFreq, cutoff>>
  /\ UNCHANGED <<ramps, sweepStep, sweepTotalSteps, sweepTempo, sweepElapsed>>
  /\ ParamFrame /\ FxFrame

setFilterEnabled(enabled) ==
  /\ enabled # filterEnabled
  /\ filterEnabled' = enabled
  /\ Reroute(synthType, enabled, reverbEnabled, delayEnabled)
  /\ lastFx' = "setFilterEnabled"
  /\ UNCHANGED <<synthType, reverbEnabled, delayEnabled, filterType, filterFreq, cutoff>>
  /\ SweepFrame /\ ParamFrame /\ FxFrame

setReverbEnabled(enabled) ==
  /\ enabled # reverbEnabled
  /\ reverbEnabled' = enabled
  /\ Reroute(synthType, filterEnabled, enabled, delayEnabled)
  /\ lastFx' = "setReverbEnabled"
  /\ UNCHANGED <<synthType, filterEnabled, delayEnabled, filterType, filterFreq, cutoff>>
  /\ SweepFrame /\ ParamFrame /\ FxFrame

\* lastFx tells an enable that is undone at once from any other change
setDelayEnabled(enabled) ==
  /\ enabled # delayEnabled
  /\ delayEnabled' = enabled
  /\ Reroute(synthType, filterEnabled, reverbEnabled, enabled)
  /\ lastFx' = IF enabled THEN "delayOn"
               ELSE IF lastFx = "delayOn" THEN "delayOnOff"
               ELSE "delayOff"
  /\ UNCHANGED <<synthType, filterEnabled, reverbEnabled, filterType, filterFreq, cutoff>>
  /\ SweepFrame /\ ParamFrame /\ FxFrame

\* applyPreset whose setSynthType is committed, and seen by the routing effect,
\* before the eleven effect setters
applyPresetVoiceFirst(type) ==
  /\ type # synthType
  /\ synthType' = type
  /\ Reroute(type, filterEnabled, reverbEnabled, delayEnabled)
  /\ lastFx' = "applyPreset"
  /\ lastPreset' = type
  /\ UNCHANGED <<filterEnabled, reverbEnabled, delayEnabled, filterType, filterFreq, cutoff,
                 fxParams>>
  /\ SweepFrame /\ FxFrame

\* the voice selector: the voice with its effect preset; the twelve setters are
\* batched into one commit, after which the parameter and routing effects run
applyPreset(type) ==
  LET preset == SYNTH_PRESETS[type]
  IN  /\ <<type, preset.filterEnabled, preset.reverbEnabled, preset.delayEnabled,
           preset.filterType, preset.filterFreq, PresetParams(preset)>>
           # <<synthType, filterEnabled, reverbEnabled, delayEnabled, filterType, filterFreq,
               fxParams>>
      /\ synthType' = type
      /\ filterEnabled' = preset.filterEnabled
      /\ reverbEnabled' = preset.reverbEnabled
      /\ delayEnabled' = preset.delayEnabled
      /\ filterType' = preset.filterType
      /\ filterFreq' = preset.filterFreq
      /\ fxParams' = PresetParams(preset)
      /\ cutoff' = IF <<filterType', filterFreq', fxParams'.filterQ>>
                        # <<filterType, filterFreq, fxParams.filterQ>>
                   THEN filterFreq' ELSE cutoff
      /\ Reroute(type, preset.filterEnabled, preset.reverbEnabled, preset.delayEnabled)
      /\ lastFx' = "applyPreset"
      /\ lastPreset' = type
      /\ SweepFrame /\ FxFrame

\* ---------------------------------------------------------------------
\* Audio engine: filter sweep
\* ---------------------------------------------------------------------
SWEEP_LOW_FREQ == 200
SWEEP_HIGH_FREQ == 8000
\* updateInterval, in ms
UPDATE_INTERVAL == 50

\* halfDuration = 32 * (60 / tempo) seconds, in ms, as a fraction
HalfDurationMs(tempoBpm) == [num |-> 32 * 60 * 1000, den |-> tempoBpm]

\* a sweep that counts the updates of one ramp only
SweepTotalStepsOneRamp(tempoBpm) ==
  HalfDurationMs(tempoBpm).num \div (HalfDurationMs(tempoBpm).den * UPDATE_INTERVAL)

\* Math.floor(totalDuration * 1000 / updateInterval), totalDuration = halfDuration * 2
SweepTotalSteps(tempoBpm) ==
  (2 * HalfDurationMs(tempoBpm).num) \div (HalfDurationMs(tempoBpm).den * UPDATE_INTERVAL)

\* Math.round(a / b) for positive a and b
RoundDiv(a, b) == (2 * a + b) \div (2 * b)

\* a sweep display that would keep rising after halfSteps
SweepFreqUpOnly(step, totalSteps) ==
  RoundDiv(SWEEP_LOW_FREQ * totalSteps + (SWEEP_HIGH_FREQ - SWEEP_LOW_FREQ) * 2 * step,
           totalSteps)

\* the frequency updateUI shows at a step: up to halfSteps = totalSteps / 2, then down
SweepFreq(step, totalSteps) ==
  IF 2 * step <= totalSteps
  THEN RoundDiv(SWEEP_LOW_FREQ * totalSteps
                  + (SWEEP_HIGH_FREQ - SWEEP_LOW_FREQ) * 2 * step, totalSteps)
  ELSE RoundDiv(SWEEP_HIGH_FREQ * totalSteps
                  - (SWEEP_HIGH_FREQ - SWEEP_LOW_FREQ) * (2 * step - totalSteps), totalSteps)

\* the two ramps of a sweep, with times in ms after the trigger as fractions
SweepRamps(tempoBpm) ==
  LET half == HalfDurationMs(tempoBpm)
  IN  << [target |-> SWEEP_HIGH_FREQ, startMs |-> [num |-> 0, den |-> half.den],
          endMs |-> half],
         [target |-> SWEEP_LOW_FREQ, startMs |-> half,
          endMs |-> [num |-> 2 * half.num, den |-> half.den]] >>

\* a trigger that clears the pending timeout and sets none
ScheduleFirstUpdateCleared(chains) == 0

\* the pending timeout of the ref is cleared, then updateUI is scheduled
ScheduleFirstUpdate(chains) == (IF chains > 0 THEN chains - 1 ELSE 0) + 1

\* filterRef.current is set by the mount effect before any click
triggerFilterSweep ==
  /\ filterEnabled' = TRUE
  /\ Reroute(synthType, TRUE, reverbEnabled, delayEnabled)
  /\ filterType' = "lowpass"
  /\ cutoff' = SWEEP_LOW_FREQ
  /\ filterFreq' = SWEEP_LOW_FREQ
  /\ filterSweepActive' = TRUE
  /\ ramps' = SweepRamps(tempo)
  /\ sweepTotalSteps' = SweepTotalSteps(tempo)
  /\ sweepStep' = 0
  /\ sweepChains' = ScheduleFirstUpdate(sweepChains)
  /\ sweepTempo' = tempo
  /\ sweepElapsed' = 0
  /\ UNCHANGED <<synthType, reverbEnabled, delayEnabled>>

\* an Auto Filter button that is never disabled
AutoFilterNeverDisabled == FALSE

\* disabled={filterSweepActive}
AutoFilterDisabled == filterSweepActive

\* a click on the Auto Filter button: a disabled button delivers no click
AutoFilterClick ==
  /\ lastFx' = "autoFilterClick"
  /\ IF AutoFilterDisabled
     THEN UNCHANGED <<graphVars, sweepVars, sweepTempo, sweepElapsed>>
     ELSE triggerFilterSweep
  /\ ParamFrame /\ FxFrame

\* the timeout fires: one run of updateUI, and of the filter parameter effect
updateUI ==
  /\ sweepChains > 0
  /\ sweepStep' = sweepStep + 1
  /\ filterFreq' = SweepFreq(sweepStep', sweepTotalSteps)
  /\ cutoff' = IF filterFreq' # filterFreq THEN filterFreq' ELSE cutoff
  /\ IF sweepStep' < sweepTotalSteps
     THEN UNCHANGED <<filterSweepActive, sweepChains>>
     ELSE /\ filterSweepActive' = FALSE
          /\ sweepChains' = sweepChains - 1
  /\ sweepElapsed' = sweepElapsed + UPDATE_INTERVAL
  /\ lastFx' = "updateUI"
  /\ UNCHANGED <<graphVars, filterType, ramps, sweepTotalSteps, sweepTempo>>
  /\ ParamFrame /\ FxFrame

\* the cutoff slider: the filter parameter effect writes the value to the node
setFilterFreq(value) ==
  /\ value # filterFreq
  /\ filterFreq' = value
  /\ cutoff' = value
  /\ lastFx' = "setFilterFreq"
  /\ UNCHANGED <<graphVars, filterType>>
  /\ SweepFrame /\ ParamFrame /\ FxFrame

\* the tempo field: the value is clamped, and the tempo effect sets the transport bpm
setTempo(value) ==
  /\ tempo' = Max2(MIN_TEMPO, Min2(MAX_TEMPO, value))
  /\ tempo' # tempo
  /\ bpm' = tempo'
  /\ Observe("setTempo", <<>>, FALSE)
  /\ UNCHANGED <<notes, scale, rootNote, chords, selectionStart, selectionEnd, clipboard,
                 history, historyIndex>>
  /\ UNCHANGED <<isPlaying, currentStep, isLooping, metronomeEnabled, metronomeType, patternRef,
                 transportState, transportTicks, seq, seqState, playPending>>
  /\ UNCHANGED playVars

\* ---------------------------------------------------------------------
\* Chord track
\* ---------------------------------------------------------------------
MIN_CHORD_DURATION == 4

\* the values of the duration buttons of the chord editor
CHORD_DURATIONS == <<4, 8, 16, 32, 64, 128, 256>>

\* pointer positions on the track, as steps (getStepFromX of the event): half-way
\* between two beats of the first bar, and the first and the last beat of the last bar
TrackSteps == {6, 240, 254}

DragModes == {"move", "resize-left", "resize-right"}

MaxOf(S) == CHOOSE x \in S : \A y \in S : y <= x

MinOf(S) == CHOOSE x \in S : \A y \in S : x <= y

\* Math.round(step / MIN_CHORD_DURATION) * MIN_CHORD_DURATION; Math.round rounds a
\* half upwards
snapToGrid(step) ==
  ((2 * step + MIN_CHORD_DURATION) \div (2 * MIN_CHORD_DURATION)) * MIN_CHORD_DURATION

ChordEnd(c) == c.step + c.duration

\* the end of the nearest marker before the chord and the start of the nearest after
getChordConstraints(chord) ==
  LET Others == {i \in 1..Len(chords) : chords[i].step # chord.step}
      Before == {ChordEnd(chords[i]) : i \in {j \in Others : ChordEnd(chords[j]) <= chord.step}}
      After == {chords[i].step : i \in {j \in Others : chords[j].step >= ChordEnd(chord)}}
  IN  [minStep |-> MaxOf(Before \cup {0}), maxEnd |-> MinOf(After \cup {TOTAL_STEPS})]

\* the room up to the next marker that starts after the step; excludeStep is <<>>
\* (undefined) or the one step to leave out
getMaxDuration(step, excludeStep) ==
  LET Later == {chords[i].step - step :
                  i \in {j \in 1..Len(chords) :
                           <<chords[j].step>> # excludeStep /\ chords[j].step > step}}
  IN  MinOf(Later \cup {TOTAL_STEPS - step})

\* editingChord.chord?.step
EditedStep ==
  IF editingChord[1].chord = <<>> THEN <<>> ELSE <<editingChord[1].chord[1].step>>

\* the duration buttons the editor shows
getAvailableDurations ==
  {CHORD_DURATIONS[i] : i \in {j \in 1..Len(CHORD_DURATIONS) :
      CHORD_DURATIONS[j] <= getMaxDuration(editingChord[1].step, EditedStep)}}

\* one more event handled; the chord track leaves everything but the markers and
\* its own state alone
TrackFrame ==
  /\ trackOps < MaxTrackOps
  /\ trackOps' = trackOps + 1
  /\ UNCHANGED <<notes, scale, rootNote, tempo, selectionStart, selectionEnd, clipboard,
              history, historyIndex, obsVars, engineVars, playVars, scaleVars, fxVars,
              edgeVars>>

\* the editor is a full-window overlay: the track receives no pointer event under it
EditorOpen == editingChord # <<>>

\* mouse-down on a marker's handle or body
handleMouseDown(i, mode) ==
  /\ ~EditorOpen
  /\ dragMode = "none"
  /\ i \in 1..Len(chords)
  /\ dragMode' = mode
  /\ dragChord' = <<chords[i]>>
  /\ dragPreview' = <<[step |-> chords[i].step, duration |-> chords[i].duration]>>
  /\ UNCHANGED <<chords, editingChord, selectedDuration>>
  /\ TrackFrame

\* the preview of a drag with the pointer over the step pointerStep; the drag
\* started with the pointer at the marker's first step (getStepFromX(dragStartX))
DragPreviewAt(pointerStep) ==
  LET chord == dragChord[1]
      dragStartStep == chord.step
      limits == getChordConstraints(chord)
      movedStep ==
        Max2(0, Min2(limits.maxEnd - chord.duration,
                     Max2(limits.minStep,
                          snapToGrid(chord.step + (pointerStep - dragStartStep)))))
      leftStep ==
        Min2(ChordEnd(chord) - MIN_CHORD_DURATION,
             Max2(limits.minStep, snapToGrid(pointerStep)))
      rightEnd ==
        Max2(chord.step + MIN_CHORD_DURATION,
             Min2(limits.maxEnd, snapToGrid(pointerStep)))
  IN  IF dragMode = "move" THEN [step |-> movedStep, duration |-> chord.duration]
      ELSE IF dragMode = "resize-left"
           THEN [step |-> leftStep, duration |-> ChordEnd(chord) - leftStep]
      ELSE [step |-> chord.step, duration |-> rightEnd - chord.step]

handleMouseMove(pointerStep) ==
  /\ dragMode # "none" /\ dragChord # <<>> /\ dragPreview # <<>>
  /\ dragPreview' = <<DragPreviewAt(pointerStep)>>
  /\ dragPreview' # dragPreview
  /\ UNCHANGED <<chords, editingChord, selectedDuration, dragMode, dragChord>>
  /\ TrackFrame

\* onRemoveChord(dragChord.step); onAddChord({...dragChord, step, duration})
handleMouseUp ==
  /\ dragMode # "none" /\ dragChord # <<>> /\ dragPreview # <<>>
  /\ chords' = AddChordResult(RemoveChordResult(chords, dragChord[1].step),
                              [dragChord[1] EXCEPT !.step = dragPreview[1].step,
                                                   !.duration = dragPreview[1].duration])
  /\ dragMode' = "none"
  /\ dragChord' = <<>>
  /\ dragPreview' = <<>>
  /\ UNCHANGED <<editingChord, selectedDuration>>
  /\ TrackFrame

\* a click on the track at the step: the editor opens on the marker under the
\* pointer, or on a new marker at the snapped step
handleTrackClick(step) ==
  /\ ~EditorOpen
  /\ dragMode = "none"
  /\ step >= 0 /\ step < TOTAL_STEPS
  /\ LET snappedStep == snapToGrid(step)
         Under(c) == step >= c.step /\ step < ChordEnd(c)
         existing == Filter(chords, Under)
     IN  IF existing # <<>>
         THEN /\ selectedDuration' = existing[1].duration
              /\ editingChord' = <<[step |-> existing[1].step, chord |-> <<existing[1]>>]>>
         ELSE /\ selectedDuration' = Min2(STEPS_PER_BAR, TOTAL_STEPS - snappedStep)
              /\ editingChord' = <<[step |-> snappedStep, chord |-> <<>>]>>
  /\ UNCHANGED <<chords, dragMode, dragChord, dragPreview>>
  /\ TrackFrame

\* a duration button of the editor
setSelectedDuration(d) ==
  /\ EditorOpen
  /\ d \in getAvailableDurations
  /\ selectedDuration' = d
  /\ selectedDuration' # selectedDuration
  /\ UNCHANGED <<chords, editingChord, dragMode, dragChord, dragPreview>>
  /\ TrackFrame

\* the Add / Update button (root and quality take no part in the placement)
handleSaveChord ==
  /\ EditorOpen
  /\ LET maxAllowed == getMaxDuration(editingChord[1].step, EditedStep)
         finalDuration == Min2(selectedDuration, maxAllowed)
     IN  chords' = AddChordResult(chords, [step |-> editingChord[1].step, root |-> 0,
                                           quality |-> "maj", duration |-> finalDuration])
  /\ editingChord' = <<>>
  /\ UNCHANGED <<selectedDuration, dragMode, dragChord, dragPreview>>
  /\ TrackFrame

\* the Delete button, shown for an existing marker
handleDeleteChord ==
  /\ EditorOpen
  /\ editingChord[1].chord # <<>>
  /\ chords' = RemoveChordResult(chords, editingChord[1].chord[1].step)
  /\ editingChord' = <<>>
  /\ UNCHANGED <<selectedDuration, dragMode, dragChord, dragPreview>>
  /\ TrackFrame

\* the Cancel button
CancelEdit ==
  /\ EditorOpen
  /\ editingChord' = <<>>
  /\ UNCHANGED <<chords, selectedDuration, dragMode, dragChord, dragPreview>>
  /\ TrackFrame

\* ---------------------------------------------------------------------
\* Catalog server: POST /api/patterns behind the save limiter
\* ---------------------------------------------------------------------
\* max of savePatternLimiter
RATE_MAX == 20

\* z.number().int(): numbers of a request body are kept in tenths
IsInt(tenths) == tenths % 10 = 0

NoteSchema(note) ==
  /\ note.step \in 0..255
  /\ note.pitch >= 0
  /\ note.velocity \in 0..127
  /\ note.length \in 1..16

ScaleTypeSchema ==
  {"major", "minor", "harmonicMinor", "melodicMinor", "dorian", "phrygian",
   "phrygianDominant", "lydian", "mixolydian", "wholeTone", "diminished",
   "pentatonicMajor", "pentatonicMinor", "blues"}

TagSchema ==
  {"Uplifting", "Progressive", "Psytrance", "Tech-Trance", "Goa", "Lead", "Bass", "Arp",
   "Pad-Rhythm", "FX", "Simple", "Complex", "Rolling", "Sparse", "Melodic"}

\* a schema that would let any tag through
CreatePatternSchemaAnyTag(body) ==
  /\ body.description \in 10..500
  /\ body.name <= 100
  /\ body.notes.count \in 1..1000
  /\ NoteSchema(body.notes.note)
  /\ body.scale \in ScaleTypeSchema
  /\ IsInt(body.rootNote) /\ body.rootNote \in 0..1270
  /\ IsInt(body.tempo) /\ body.tempo \in 1200..1600
  /\ Len(body.tags) <= 5

\* CreatePatternSchema.parse succeeds. description and name are given by their
\* lengths (a name of length 0 is absent), notes by their number and one note
\* that stands for all of them, rootNote and tempo in tenths
CreatePatternSchema(body) ==
  /\ body.description \in 10..500
  /\ body.name <= 100
  /\ body.notes.count \in 1..1000
  /\ NoteSchema(body.notes.note)
  /\ body.scale \in ScaleTypeSchema
  /\ IsInt(body.rootNote) /\ body.rootNote \in 0..1270
  /\ IsInt(body.tempo) /\ body.tempo \in 1200..1600
  /\ Len(body.tags) <= 5
  /\ \A i \in 1..Len(body.tags) : body.tags[i] \in TagSchema

\* the client addresses requests come from
Origins == {"a", "b"}

\* a limiter that would keep one count for all addresses
SharedLimiterPasses(origin) ==
  LET RECURSIVE Total(_)
      Total(S) == IF S = {} THEN 0
                  ELSE LET o == CHOOSE p \in S : TRUE IN hits[o] + Total(S \ {o})
  IN  Total(Origins) + 1 <= RATE_MAX

\* savePatternLimiter: the request is counted against its address, and passes
\* while the count of the window stays within max
savePatternLimiter(origin) == hits[origin] + 1 <= RATE_MAX

\* the row createPattern inserts: the body with a name generated when none came
CreatedRow(body) == [body EXCEPT !.name = IF body.name > 0 THEN body.name ELSE 1]

\* POST /api/patterns: the limiter, then the handler; a thrown error goes to
\* errorHandler (400 for a ZodError, 500 otherwise); dbOk is whether the INSERT succeeds
postPattern(origin, body, dbOk) ==
  /\ requests < MaxRequests
  /\ requests' = requests + 1
  /\ reqOrigin' = origin
  /\ reqBody' = <<body>>
  /\ hits' = [hits EXCEPT ![origin] = @ + 1]
  /\ IF ~savePatternLimiter(origin)
     THEN /\ status' = 429
          /\ UNCHANGED <<rows, lastRow, handled>>
     ELSE /\ handled' = [handled EXCEPT ![origin] = @ + 1]
          /\ IF ~CreatePatternSchema(body)
             THEN /\ status' = 400
                  /\ UNCHANGED <<rows, lastRow>>
             ELSE IF dbOk
             THEN /\ rows' = rows + 1
                  /\ lastRow' = <<CreatedRow(body)>>
                  /\ status' = 201
             ELSE /\ status' = 500
                  /\ UNCHANGED <<rows, lastRow>>
  /\ UNCHANGED <<storeVars, obsVars, engineVars, playVars, scaleVars, fxVars, trackVars,
                 exportVars>>

\* windowMs has passed for some addresses: their counts start again
windowExpires(keys) ==
  /\ \E o \in keys : hits[o] > 0
  /\ hits' = [o \in Origins |-> IF o \in keys THEN 0 ELSE hits[o]]
  /\ handled' = [o \in Origins |-> IF o \in keys THEN 0 ELSE handled[o]]
  /\ UNCHANGED <<rows, lastRow, reqOrigin, reqBody, status, requests>>
  /\ UNCHANGED <<storeVars, obsVars, engineVars, playVars, scaleVars, fxVars, trackVars,
                 exportVars>>

\* the server after hits[o] earlier requests of the window that stored nothing
ServerInitWith(h) ==
  /\ rows = 0
  /\ lastRow = <<>>
  /\ hits = h
  /\ handled = [o \in Origins |-> IF h[o] <= RATE_MAX THEN h[o] ELSE RATE_MAX]
  /\ reqOrigin = "none"
  /\ reqBody = <<>>
  /\ status = 0
  /\ requests = 0

ServerIdle == ServerInitWith([o \in Origins |-> 0])

\* ---------------------------------------------------------------------
\* MIDI export: ExportModal
\* ---------------------------------------------------------------------
VelocityCurve == {"as-is", "compress", "expand", "humanize"}

NoteLengthOption == {"as-programmed", "legato", "staccato"}

\* the results of Math.random(), in tenths
RandomDraws == {0, 9}

\* velocities are kept in units of 1/12700, so that 12700 is the full velocity 1
VELOCITY_ONE == 12700

\* Math.pow(velocity, 1.5) for velocity = v / 127, rounded down to ten units
ExpandVelocity(v) ==
  10 * (CHOOSE n \in 0..(VELOCITY_ONE \div 10) :
          /\ n * n * 127 <= 100 * v * v * v
          /\ (n + 1) * (n + 1) * 127 > 100 * v * v * v)

\* the velocity of an exported note: the curve, then the clamp to [0, 1]
CurveVelocity(v, curve, draw) ==
  LET velocity == CASE curve = "compress" -> 6350 + 30 * v
                    [] curve = "expand"   -> ExpandVelocity(v)
                    [] curve = "humanize" -> v * (90 + 2 * draw)
                    [] OTHER              -> 100 * v
  IN  Max2(0, IF velocity < VELOCITY_ONE THEN velocity ELSE VELOCITY_ONE)

\* durationSteps, in tenths of a step
DurationSteps(len, policy) ==
  CASE policy = "legato"   -> len * 11
    [] policy = "staccato" -> len * 5
    [] OTHER               -> len * 10

\* the argument of track.addNote for one note; secondsPer16th is 15 / tempo, and
\* the times are fractions of a second
ExportNote(note, sc, root, bpmValue, curve, policy, draw) ==
  [midi     |-> scaleDegreeToMidi(note.pitch, SCALES[sc], root),
   time     |-> [num |-> note.step * 15, den |-> bpmValue],
   duration |-> [num |-> DurationSteps(note.length, policy) * 15, den |-> 10 * bpmValue],
   velocity |-> CurveVelocity(note.velocity, curve, draw)]

\* what the note events are computed from
ExportInputs ==
  [notes |-> notes, scale |-> scale, rootNote |-> rootNote, tempo |-> tempo,
   velocityCurve |-> velocityCurve, noteLength |-> noteLength]

setVelocityCurve(curve) ==
  /\ curve # velocityCurve
  /\ velocityCurve' = curve
  /\ UNCHANGED <<noteLength, exported, prevExported, exports, localCatalog>>
  /\ UNCHANGED <<storeVars, obsVars, engineVars, playVars, scaleVars, fxVars, trackVars,
                 serverVars>>

setNoteLength(policy) ==
  /\ policy # noteLength
  /\ noteLength' = policy
  /\ UNCHANGED <<velocityCurve, exported, prevExported, exports, localCatalog>>
  /\ UNCHANGED <<storeVars, obsVars, engineVars, playVars, scaleVars, fxVars, trackVars,
                 serverVars>>

\* the Export button: one event per note, draws[i] being the Math.random() of note
\* i; the pattern is saved to the local catalog when a name was typed and the box
\* is ticked (named); onClose unmounts the modal, which opens again with its defaults
handleExport(draws, named) ==
  /\ exports < MaxExports
  /\ exports' = exports + 1
  /\ prevExported' = exported
  /\ exported' = << [inputs |-> ExportInputs,
                     events |-> [i \in 1..Len(notes) |->
                                   ExportNote(notes[i], scale, rootNote, tempo,
                                              velocityCurve, noteLength, draws[i])]] >>
  /\ localCatalog' = IF named THEN localCatalog + 1 ELSE localCatalog
  /\ velocityCurve' = "as-is"
  /\ noteLength' = "as-programmed"
  /\ UNCHANGED <<storeVars, obsVars, engineVars, playVars, scaleVars, fxVars, trackVars,
                 serverVars>>

ExportIdle ==
  /\ velocityCurve = "as-is"
  /\ noteLength = "as-programmed"
  /\ exported = <<>>
  /\ prevExported = <<>>
  /\ exports = 0
  /\ localCatalog = 0

EdgeIdle == ServerIdle /\ ExportIdle

TrackInit ==
  /\ editingChord = <<>>
  /\ selectedDuration = STEPS_PER_BAR
  /\ dragMode = "none"
  /\ dragChord = <<>>
  /\ dragPreview = <<>>
  /\ trackOps = 0

FxInit ==
  /\ synthType = "acidDark"
  /\ filterEnabled = FALSE
  /\ reverbEnabled = FALSE
  /\ delayEnabled = FALSE
  /\ connections = RoutingEffect({}, FALSE, FALSE, FALSE)
  /\ liveSynths = 1
  /\ filterType = "lowpass"
  /\ filterFreq = 2000
  /\ cutoff = 2000
  /\ ramps = <<>>
  /\ filterSweepActive = FALSE
  /\ sweepStep = 0
  /\ sweepTotalSteps = 0
  /\ sweepChains = 0
  /\ lastFx = "init"
  /\ sweepTempo = 0
  /\ sweepElapsed = 0
  /\ fxParams = [filterQ |-> 1, delayTime |-> "8n", delayFeedback |-> 30, delayMix |-> 30,
                 reverbDecay |-> 250, reverbMix |-> 30]
  /\ lastPreset = "none"

\* ---------------------------------------------------------------------
\* Pattern Store specification
\* ---------------------------------------------------------------------
vars == <<storeVars, obsVars, engineVars, playVars, scaleVars, fxVars, trackVars, edgeVars>>

StoreInitWith(initialScale, initialRoot, initialHistory) ==
  /\ notes = <<>>
  /\ scale = initialScale
  /\ rootNote = initialRoot
  /\ tempo = DEFAULT_TEMPO
  /\ chords = <<>>
  /\ selectionStart = 0
  /\ selectionEnd = 4
  /\ clipboard = <<>>
  /\ history = initialHistory
  /\ historyIndex = Len(initialHistory) - 1

StoreInit == StoreInitWith("harmonicMinor", DEFAULT_ROOT_NOTE, << <<>> >>)

ObsInit ==
  /\ lastOp = "init"
  /\ lastArg = <<>>
  /\ before = <<>>
  /\ opCount = 0
  /\ uChain = 0
  /\ uPre = <<>>
  /\ uPost = <<>>
  /\ tCount = 0
  /\ tPre = <<>>
  /\ loaded = FALSE
  /\ beforeScale = scale
  /\ sChain = 0
  /\ sFrom = "none"
  /\ sPre = <<>>
  /\ dropped = 0

EngineInit ==
  /\ isPlaying = FALSE
  /\ currentStep = -1
  /\ isLooping = TRUE
  /\ metronomeEnabled = FALSE
  /\ metronomeType = "click"
  /\ patternRef = Pattern
  /\ transportState = "stopped"
  /\ transportTicks = 0
  /\ bpm = tempo
  /\ seq = SeqDeps(isLooping, metronomeEnabled, metronomeType, selectionStart, selectionEnd)
  /\ seqState = "stopped"
  /\ playPending = FALSE

PlayInit ==
  /\ tickCount = 0
  /\ stable = TRUE
  /\ traversals = 0
  /\ tickStep = -1
  /\ triggered = <<>>
  /\ metronomeHit = "none"
  /\ stopReturned = FALSE
  /\ lateTick = FALSE

\* the Scale Engine harness at rest
ScaleIdle ==
  /\ seDegree = 0
  /\ seMidi = -1
  /\ seBack = -1
  /\ sePhase = "idle"

Init == StoreInit /\ ObsInit /\ EngineInit /\ PlayInit /\ ScaleIdle /\ FxInit /\ TrackInit /\ EdgeIdle

Next ==
  \/ \E cell \in ToggleCells : toggleNote(cell[1], cell[2])
  \/ clearPattern
  \/ \E newScale \in StoreScales : setScale(newScale)
  \/ copySelection
  \/ cutSelection
  \/ pasteAtSelection
  \/ duplicateSelection
  \/ loopSelection
  \/ clearSelection
  \/ addOctaveDown
  \/ nudgeLeft
  \/ nudgeRight
  \/ transposeUp
  \/ transposeDown
  \/ undo
  \/ redo
  \/ \E bars \in PresetInputs : handlePresetChange(bars)
  \/ \E cp \in CatalogPatterns : handleLoadFromCatalog(cp)

Spec == Init /\ [][Next]_vars

\* ---------------------------------------------------------------------
\* Transport specification: playback interleaved with edits and range changes
\* ---------------------------------------------------------------------
\* grid cells the user clicks during playback: the first and the last step of
\* the one-bar range
TransportCells == {<<0, 0>>, <<15, 1>>}

\* a catalog entry saved with the loop range bar 1 .. bar 2
TransportCatalog ==
  { [notes |-> <<Note(16, 3, 90, 2, FALSE)>>,
     scale |-> "minor", rootNote |-> 57, tempo |-> 140, hasLoop |-> TRUE,
     loopStart |-> 1, loopEnd |-> 2] }

TransportNext ==
  \/ PlayCall
  \/ PlayResolve
  \/ PlayReject
  \/ stop
  \/ (transportTicks < ShortRun /\ Tick)
  \/ UpdatePatternRef
  \/ \E looping \in BOOLEAN : setIsLooping(looping)
  \/ \E bars \in PresetInputs : handlePresetChange(bars)
  \/ \E cell \in TransportCells : toggleNote(cell[1], cell[2])
  \/ \E cp \in TransportCatalog : handleLoadFromCatalog(cp)

SpecTransport == Init /\ [][TransportNext]_vars

\* ---------------------------------------------------------------------
\* Long-run specification: playback over MaxTicks ticks
\* ---------------------------------------------------------------------
LoopRunNext ==
  \/ PlayCall
  \/ PlayResolve
  \/ PlayReject
  \/ stop
  \/ Tick
  \/ \E enabled \in BOOLEAN : setMetronomeEnabled(enabled)
  \/ \E bars \in PresetInputs : handlePresetChange(bars)

SpecLoopRun == Init /\ [][LoopRunNext]_vars

\* ---------------------------------------------------------------------
\* Scale Engine specification: degree -> MIDI -> degree
\* ---------------------------------------------------------------------
MIDI_MAX == 127

ScaleInit ==
  /\ \E sc \in ScaleType, root \in 0..MIDI_MAX : StoreInitWith(sc, root, << <<>> >>)
  /\ ObsInit /\ EngineInit /\ PlayInit /\ FxInit /\ TrackInit /\ EdgeIdle
  /\ seDegree \in 0..(Len(SCALES[scale]) * OCTAVE_RANGE - 1)
  /\ seMidi = -1
  /\ seBack = -1
  /\ sePhase = "degree"

DegreeToMidi ==
  /\ sePhase = "degree"
  /\ seMidi' = scaleDegreeToMidi(seDegree, SCALES[scale], rootNote)
  /\ sePhase' = "midi"
  /\ UNCHANGED <<seDegree, seBack>>
  /\ UNCHANGED <<storeVars, obsVars, engineVars, playVars, fxVars, trackVars, edgeVars>>

MidiToDegree ==
  /\ sePhase = "midi"
  /\ seBack' = midiToNearestScaleDegree(seMidi, SCALES[scale], rootNote)
  /\ sePhase' = "back"
  /\ UNCHANGED <<seDegree, seMidi>>
  /\ UNCHANGED <<storeVars, obsVars, engineVars, playVars, fxVars, trackVars, edgeVars>>

ScaleNext == DegreeToMidi \/ MidiToDegree

SpecScale == ScaleInit /\ [][ScaleNext]_vars

\* ---------------------------------------------------------------------
\* Scale Engine specification: any MIDI note -> degree
\* ---------------------------------------------------------------------
\* roots tried with every MIDI note: the lowest, the default, the highest
NearestRoots == {0, DEFAULT_ROOT_NOTE, MIDI_MAX}

NearestInit ==
  /\ \E sc \in ScaleType, root \in NearestRoots : StoreInitWith(sc, root, << <<>> >>)
  /\ ObsInit /\ EngineInit /\ PlayInit /\ FxInit /\ TrackInit /\ EdgeIdle
  /\ seDegree = 0
  /\ seMidi \in 0..MIDI_MAX
  /\ seBack = -1
  /\ sePhase = "midi"

SpecNearest == NearestInit /\ [][MidiToDegree]_vars

\* ---------------------------------------------------------------------
\* Re-quantisation specification: one note, the scale changed twice
\* ---------------------------------------------------------------------
\* root notes tried by the re-quantisation model
RequantRoots == {DEFAULT_ROOT_NOTE, 57}

\* the store after the user picked a scale and a root on the empty pattern
RequantInit ==
  /\ \E sc \in ScaleType, root \in RequantRoots :
       StoreInitWith(sc, root, pushHistory(<< <<>> >>, 0, <<>>).history)
  /\ ObsInit /\ EngineInit /\ PlayInit /\ ScaleIdle /\ FxInit /\ TrackInit /\ EdgeIdle

\* the grid offers the degrees below getScaleNotes(scale, rootNote, OCTAVE_RANGE).length
GridPitchCount(sc) == Len(SCALES[sc]) * OCTAVE_RANGE + 1

RequantNext ==
  \/ \E pitch \in 0..(12 * OCTAVE_RANGE) :
       /\ notes = <<>>
       /\ pitch < GridPitchCount(scale)
       /\ toggleNote(0, pitch)
  \/ \E newScale \in ScaleType :
       /\ Len(notes) = 1
       /\ sChain < 2
       /\ setScale(newScale)

SpecRequant == RequantInit /\ [][RequantNext]_vars

\* ---------------------------------------------------------------------
\* Routing specification
\* ---------------------------------------------------------------------
RoutingNext ==
  \/ \E enabled \in BOOLEAN : setFilterEnabled(enabled)
  \/ \E enabled \in BOOLEAN : setReverbEnabled(enabled)
  \/ \E enabled \in BOOLEAN : setDelayEnabled(enabled)
  \/ \E type \in SynthInputs : applyPreset(type)

SpecRouting == Init /\ [][RoutingNext]_vars

\* ---------------------------------------------------------------------
\* Filter sweep specification
\* ---------------------------------------------------------------------
\* values typed in the tempo field during a sweep: below, at and above the limits
TempoInputs == {100, MIN_TEMPO, 200}

\* the engine at any tempo the tempo field allows
SweepInit ==
  /\ notes = <<>>
  /\ scale = "harmonicMinor"
  /\ rootNote = DEFAULT_ROOT_NOTE
  /\ tempo \in MIN_TEMPO..MAX_TEMPO
  /\ chords = <<>>
  /\ selectionStart = 0
  /\ selectionEnd = 4
  /\ clipboard = <<>>
  /\ history = << <<>> >>
  /\ historyIndex = 0
  /\ ObsInit /\ EngineInit /\ PlayInit /\ ScaleIdle /\ FxInit /\ TrackInit /\ EdgeIdle

SweepNext ==
  \/ AutoFilterClick
  \/ updateUI
  \/ \E value \in TempoInputs : setTempo(value)

SpecSweep == SweepInit /\ [][SweepNext]_vars

\* timers keep firing: a pending updateUI timeout eventually runs
SpecSweepFair == SpecSweep /\ WF_vars(updateUI)

\* ---------------------------------------------------------------------
\* Sweep interleaving specification: a sweep against the other handlers
\* ---------------------------------------------------------------------
\* a cutoff the user drags the slider to
CutoffInputs == {1000}

SweepCancelNext ==
  \/ AutoFilterClick
  \/ updateUI
  \/ PlayCall
  \/ PlayResolve
  \/ stop
  \/ setTempo(MAX_TEMPO)
  \/ \E value \in CutoffInputs : setFilterFreq(value)
  \/ setFilterEnabled(FALSE)
  \/ applyPreset("acidDarkHollow")

SpecSweepCancel == Init /\ [][SweepCancelNext]_vars

\* ---------------------------------------------------------------------
\* Catalog server specification: create requests of two clients
\* ---------------------------------------------------------------------
ValidNote == Note(0, 0, DEFAULT_VELOCITY, DEFAULT_NOTE_LENGTH, FALSE)

ValidBody ==
  [description |-> 10, name |-> 0, notes |-> [count |-> 1, note |-> ValidNote],
   scale |-> "minor", rootNote |-> 450, tempo |-> 1200, tags |-> <<>>]

\* the request bodies: valid ones at the limits of the schema, and bodies that
\* break one rule each
CreateRequests ==
  {ValidBody}
  \cup {[ValidBody EXCEPT !.notes.count = n] : n \in {0, 1000, 1001}}
  \cup {[ValidBody EXCEPT !.notes.note.step = TOTAL_STEPS]}
  \cup {[ValidBody EXCEPT !.tempo = t] : t \in {1190, 1205, 1600, 1610}}
  \cup {[ValidBody EXCEPT !.scale = "chromatic"]}
  \cup {[ValidBody EXCEPT !.rootNote = r] : r \in {-10, 0, 1270, 1280}}
  \cup {[ValidBody EXCEPT !.tags = t] :
          t \in {<<"Goa">>, <<"Techno">>,
                 <<"Goa", "Lead", "Bass", "Arp", "FX", "Simple">>}}
  \cup {[ValidBody EXCEPT !.description = 9]}

\* the hits an address has made earlier in the window
PriorHits == {0, RATE_MAX - 1}

CatalogInit ==
  /\ StoreInit /\ ObsInit /\ EngineInit /\ PlayInit /\ ScaleIdle /\ FxInit /\ TrackInit
  /\ \E h \in [Origins -> PriorHits] : ServerInitWith(h)
  /\ ExportIdle

CatalogNext ==
  \/ \E origin \in Origins, body \in CreateRequests, dbOk \in BOOLEAN :
       postPattern(origin, body, dbOk)
  \/ \E keys \in SUBSET Origins : windowExpires(keys)

SpecCatalog == CatalogInit /\ [][CatalogNext]_vars

\* ---------------------------------------------------------------------
\* Export specification: exports of a loaded pattern
\* ---------------------------------------------------------------------
ExportInit ==
  /\ \E cp \in CatalogPatterns, sc \in StoreScales, bpmValue \in {MIN_TEMPO, DEFAULT_TEMPO} :
       /\ notes = cp.notes
       /\ scale = sc
       /\ rootNote = cp.rootNote
       /\ tempo = bpmValue
       /\ history = <<cp.notes>>
  /\ chords = <<>>
  /\ selectionStart = 0
  /\ selectionEnd = 4
  /\ clipboard = <<>>
  /\ historyIndex = 0
  /\ ObsInit /\ EngineInit /\ PlayInit /\ ScaleIdle /\ FxInit /\ TrackInit /\ EdgeIdle

ExportNext ==
  \/ \E curve \in VelocityCurve : setVelocityCurve(curve)
  \/ \E policy \in NoteLengthOption : setNoteLength(policy)
  \/ \E draws \in [1..Len(notes) -> RandomDraws], named \in BOOLEAN :
       handleExport(draws, named)

SpecExport == ExportInit /\ [][ExportNext]_vars

\* ---------------------------------------------------------------------
\* Chord track specification
\* ---------------------------------------------------------------------
ChordsNext ==
  \/ \E step \in TrackSteps : handleTrackClick(step)
  \/ \E d \in {CHORD_DURATIONS[i] : i \in 1..Len(CHORD_DURATIONS)} : setSelectedDuration(d)
  \/ handleSaveChord
  \/ handleDeleteChord
  \/ CancelEdit
  \/ \E i \in 1..Len(chords), mode \in DragModes : handleMouseDown(i, mode)
  \/ \E pointerStep \in TrackSteps : handleMouseMove(pointerStep)
  \/ handleMouseUp

SpecChords == Init /\ [][ChordsNext]_vars

\* ---------------------------------------------------------------------
\* Selection specification: every writer of the loop range
\* ---------------------------------------------------------------------
\* catalog entries: one saved with the loop range bar 1 .. bar 2, one whose range is
\* detected from its notes, and one whose last note starts on the last step and
\* lasts two steps (the pattern schema allows steps up to 255 and lengths up to 16)
SelectionCatalog ==
  { [notes |-> <<Note(16, 3, 90, 2, FALSE)>>,
     scale |-> "minor", rootNote |-> 57, tempo |-> 140, hasLoop |-> TRUE,
     loopStart |-> 1, loopEnd |-> 2],
    [notes |-> <<Note(0, 0, 80, 2, TRUE), Note(16, 26, 100, 1, FALSE)>>,
     scale |-> "minor", rootNote |-> 57, tempo |-> 140, hasLoop |-> FALSE,
     loopStart |-> 0, loopEnd |-> 0],
    [notes |-> <<Note(0, 0, 80, 1, FALSE), Note(TOTAL_STEPS - 1, 5, 100, 2, FALSE)>>,
     scale |-> "minor", rootNote |-> 57, tempo |-> 140, hasLoop |-> FALSE,
     loopStart |-> 0, loopEnd |-> 0] }

SelectionNext ==
  \/ \E bars \in BAR_PRESETS : handlePresetChange(bars)
  \/ duplicateSelection
  \/ \E cell \in ToggleCells : toggleNote(cell[1], cell[2])
  \/ \E cp \in SelectionCatalog : handleLoadFromCatalog(cp)

SpecSelection == Init /\ [][SelectionNext]_vars

\* ---------------------------------------------------------------------
\* Clipboard specification: cut, copy and paste on loaded and edited patterns
\* ---------------------------------------------------------------------
ClipboardNext ==
  \/ \E cp \in SelectionCatalog : handleLoadFromCatalog(cp)
  \/ \E cell \in ToggleCells : toggleNote(cell[1], cell[2])
  \/ \E bars \in PresetInputs : handlePresetChange(bars)
  \/ copySelection
  \/ cutSelection
  \/ pasteAtSelection

SpecClipboard == Init /\ [][ClipboardNext]_vars

\* ---------------------------------------------------------------------
\* History specification: a session that has already toggled one cell many times
\* ---------------------------------------------------------------------
\* the notes after k clicks on the cell (0, 0) of an empty grid: the clicks add and
\* remove the note in turn
ToggledNotes(k) ==
  LET once == ToggleResult(<<>>, 0, 0)
  IN  IF k % 2 = 1 THEN once ELSE ToggleResult(once, 0, 0)

\* the history after k such clicks, k < MAX_HISTORY: the initial snapshot, then the
\* notes each click started from
ToggledHistory(k) ==
  [i \in 1..(k + 1) |-> IF i = 1 THEN <<>> ELSE ToggledNotes(i - 2)]

HistoryInit ==
  /\ notes = ToggledNotes(PriorToggles)
  /\ scale = "harmonicMinor"
  /\ rootNote = DEFAULT_ROOT_NOTE
  /\ tempo = DEFAULT_TEMPO
  /\ chords = <<>>
  /\ selectionStart = 0
  /\ selectionEnd = 4
  /\ clipboard = <<>>
  /\ history = ToggledHistory(PriorToggles)
  /\ historyIndex = Len(history) - 1
  /\ ObsInit /\ EngineInit /\ PlayInit /\ ScaleIdle /\ FxInit /\ TrackInit /\ EdgeIdle

HistoryNext ==
  \/ \E cell \in ToggleCells : toggleNote(cell[1], cell[2])
  \/ clearPattern
  \/ undo
  \/ redo

SpecHistory == HistoryInit /\ [][HistoryNext]_vars

\* ---------------------------------------------------------------------
\* Transport state specification: play, stop and ticks interleaved with the loop
\* range, the looping flag and the metronome settings
\* ---------------------------------------------------------------------
PlayStateNext ==
  \/ PlayCall
  \/ PlayResolve
  \/ PlayReject
  \/ stop
  \/ (transportTicks < ShortRun /\ Tick)
  \/ \E looping \in BOOLEAN : setIsLooping(looping)
  \/ \E enabled \in BOOLEAN : setMetronomeEnabled(enabled)
  \/ \E type \in {"click", "909"} : setMetronomeType(type)
  \/ \E bars \in PresetInputs : handlePresetChange(bars)

SpecPlayState == Init /\ [][PlayStateNext]_vars

\* ---------------------------------------------------------------------
\* Loaded-pattern specification: playback of the range a catalog load selects
\* ---------------------------------------------------------------------
\* the catalog entry whose last note starts on the last step and lasts two steps
LoadRunCatalog == {cp \in SelectionCatalog : PatternBars(cp) > TOTAL_BARS}

LoadRunNext ==
  \/ \E cp \in LoadRunCatalog : handleLoadFromCatalog(cp)
  \/ PlayCall
  \/ PlayResolve
  \/ PlayReject
  \/ stop
  \/ Tick

SpecLoadRun == Init /\ [][LoadRunNext]_vars

\* ---------------------------------------------------------------------
\* Pattern Store properties
\* ---------------------------------------------------------------------
\* C1: undo() called immediately after a single mutating operation makes the
\* note set structurally equal to the note set that existed immediately
\* before that operation, from every reachable state.
C1_UndoRestoresPreOp == uChain = 2 => SameNotes(notes, uPre)

\* C2: op; undo(); redo() leaves the note set structurally equal to the note
\* set that existed immediately after op.
C2_RedoRestoresPostOp == uChain = 3 => SameNotes(notes, uPost)

\* the cell of the last toggle holds, in the note list s, nothing or exactly one
\* note with the default velocity, length and accent
ToggledCellDefault(s) ==
  \/ CountAt(s, lastArg[1], lastArg[2]) = 0
  \/ /\ CountAt(s, lastArg[1], lastArg[2]) = 1
     /\ CountOf(s, Note(lastArg[1], lastArg[2], DEFAULT_VELOCITY, DEFAULT_NOTE_LENGTH, FALSE)) = 1

\* C3 (as stated): toggleNote(step, pitch) twice in a row returns the pattern
\* to exactly its original note set, for every reachable note set.
C3_DoubleToggleAnyNote == tCount = 2 => SameNotes(notes, tPre)

\* the notes of s outside the cell of the last toggle
OutsideToggledCell(s) ==
  LET Elsewhere(n) == ~(n.step = lastArg[1] /\ n.pitch = lastArg[2]) IN Filter(s, Elsewhere)

\* C3 (amended): toggleNote(step, pitch) twice in a row leaves every other cell
\* as it was, and returns the pattern to its original note set exactly when the
\* cell was empty or held a single note with the default velocity, length and
\* accent (a note put back by the second toggle carries the defaults).
C3_DoubleToggleDefault ==
  tCount = 2 =>
    /\ SameNotes(OutsideToggledCell(notes), OutsideToggledCell(tPre))
    /\ SameNotes(notes, tPre) <=> ToggledCellDefault(tPre)

\* a double toggle of an empty cell of a pattern that holds other notes
C3_Witness ==
  /\ tCount = 2
  /\ ToggledCellDefault(tPre)
  /\ Len(tPre) >= 1
  /\ CountAt(tPre, lastArg[1], lastArg[2]) = 0
  /\ SameNotes(notes, tPre)

\* C4: in every state reached from the empty pattern by the editing operations,
\* undo and redo (no catalog load), no two notes share the same (step, pitch).
C4_Uniqueness == ~loaded => Unique(notes)

\* C5: loop-fill never produces two notes at the same (step, pitch): every
\* position holds after the fill at most one note, or no more notes than before,
\* so a duplicate-free note set stays duplicate-free.
C5_LoopFillNoDuplicate ==
  lastOp = "loopSelection" =>
    /\ \A i \in 1..Len(notes) :
         CountAt(notes, notes[i].step, notes[i].pitch)
           <= Max2(1, CountAt(before, notes[i].step, notes[i].pitch))
    /\ Unique(before) => Unique(notes)

\* a fill that added copies and skipped one whose position was already occupied
C5_Witness ==
  /\ lastOp = "loopSelection"
  /\ Unique(before)
  /\ Len(notes) > Len(before)
  /\ \E i, j \in 1..Len(before) :
       /\ InRange(before[i], getSelectionSteps.startStep, getSelectionSteps.endStep)
       /\ before[j].step > before[i].step
       /\ before[j].pitch = before[i].pitch
       /\ (before[j].step - before[i].step)
            % (getSelectionSteps.endStep - getSelectionSteps.startStep) = 0

\* ---------------------------------------------------------------------
\* Scale Engine properties
\* ---------------------------------------------------------------------
\* C6: for every scale, every root 0..127 and every valid degree d,
\* midiToNearestScaleDegree(scaleDegreeToMidi(d, scale, root), scale, root) = d.
C6_RoundTrip == sePhase = "back" => seBack = seDegree

\* a degree above the first octave that came back
C6_Witness ==
  /\ sePhase = "back"
  /\ seDegree >= Len(SCALES[scale])
  /\ seMidi >= rootNote + 12
  /\ seBack = seDegree

\* C7: after setScale(B) followed by setScale(A), with A the scale before the
\* first call and the root unchanged, every note with a valid degree under A is
\* at most one degree of A away from where it was.
C7_ScaleRoundTripWithinOneStep ==
  (sChain = 2 /\ scale = sFrom) =>
    \A i \in 1..Len(notes) :
      sPre[i].pitch < Len(SCALES[sFrom]) * OCTAVE_RANGE => Abs(notes[i].pitch - sPre[i].pitch) <= 1

\* ---------------------------------------------------------------------
\* Transport properties
\* ---------------------------------------------------------------------
LoopLength == seq.loopEndStep - seq.loopStartStep

\* C8: with isLooping = true and the loop range fixed since play(), the k-th tick
\* (k = 0, 1, ...) sets currentStep = loopStart + (k mod (loopEnd - loopStart));
\* the steps stay inside [loopStart, loopEnd), and with loopStart = 0 and
\* loopEnd = 64 the 640th tick completes exactly the 10th traversal.
C8_LoopingStepSequence ==
  (isPlaying /\ stable /\ seq.isLooping /\ tickCount >= 1) =>
    /\ currentStep = seq.loopStartStep + ((tickCount - 1) % LoopLength)
    /\ currentStep >= seq.loopStartStep /\ currentStep < seq.loopEndStep
    /\ traversals = tickCount \div LoopLength
    /\ (seq.loopStartStep = 0 /\ seq.loopEndStep = 64 /\ tickCount = 640) =>
         (traversals = 10 /\ currentStep = 63)

\* the tick that closes the tenth traversal of the default four-bar loop
C8_Witness ==
  /\ isPlaying /\ stable /\ seq.isLooping
  /\ lastOp = "tick"
  /\ seq.loopStartStep = 0 /\ seq.loopEndStep = 64
  /\ tickCount = 640
  /\ traversals = 10
  /\ currentStep = 63

\* C9: with isLooping = false and the loop range fixed since play(), the ticks
\* deliver the steps loopStart .. loopEnd-1 once each and in order, each
\* triggering the notes of its step, and the tick for loopEnd-1 leaves the
\* transport stopped (isPlaying = false, currentStep = -1); while the engine is
\* not playing the transport is stopped, so no tick fires until the next play().
C9_NonLoopingRunsOnce ==
  /\ (lastOp = "tick" /\ stable /\ ~seq.isLooping) =>
       /\ tickCount >= 1 /\ tickCount <= LoopLength
       /\ tickStep = seq.loopStartStep + tickCount - 1
       /\ triggered = TriggersAt(patternRef, tickStep)
       /\ IF tickCount = LoopLength
          THEN isPlaying = FALSE /\ currentStep = -1 /\ transportState = "stopped"
          ELSE isPlaying = TRUE /\ currentStep = tickStep
  /\ (~seq.isLooping /\ ~isPlaying) => transportState = "stopped"

\* the automatic stop at the end of a non-looping run whose last step held a note
C9_Witness ==
  /\ lastOp = "tick" /\ stable /\ ~seq.isLooping
  /\ tickCount = LoopLength
  /\ tickStep = seq.loopEndStep - 1
  /\ Len(triggered) >= 1
  /\ isPlaying = FALSE /\ currentStep = -1

\* C10: once stop() has returned and until play() is called again, the
\* transport is stopped (isPlaying = false, currentStep = -1, position 0) and
\* no tick callback has run, whatever loop-range changes and edits interleave.
C10_NoTickAfterStop ==
  stopReturned =>
    /\ isPlaying = FALSE
    /\ currentStep = -1
    /\ transportTicks = 0
    /\ transportState = "stopped"
    /\ ~lateTick

\* stop() during playback, followed by a loop-range change and an edit
C10_Witness ==
  /\ stopReturned
  /\ tickStep >= 0
  /\ seq.loopStartStep = 16
  /\ Len(notes) >= 1
  /\ lastOp \notin {"stop", "tick"}

\* C11: each tick triggers exactly the notes whose step equals the tick's step
\* in the Pattern Store state at tick time (note set, scale and root), whatever
\* the interleaving of edit commit, pattern-ref update and tick.
C11_TickReadsLatestPattern ==
  lastOp = "tick" => triggered = TriggersAt(Pattern, tickStep)

\* equality of two fractions with positive denominators
SameFraction(a, b) == a.num * b.den = b.num * a.den

\* the duration of length sixteenth notes at a tempo, in seconds, as a fraction
SixteenthsSeconds(length, tempoBpm) == [num |-> length * 60, den |-> 4 * tempoBpm]

\* C12: every note triggered by a tick is asked to sound for note.length times
\* one sixteenth note at the current tempo, with velocity note.velocity / 127,
\* which lies in [0, 1].
C12_DurationAndVelocity ==
  lastOp = "tick" =>
    \A i \in 1..Len(triggered) :
      LET note == NotesAtStep(patternRef, tickStep)[i]
      IN  /\ SameFraction(NotationSeconds(triggered[i].notation, bpm),
                          SixteenthsSeconds(note.length, bpm))
          /\ SameFraction(TriggerVelocity(triggered[i]), [num |-> note.velocity, den |-> 127])
          /\ TriggerVelocity(triggered[i]).num >= 0
          /\ TriggerVelocity(triggered[i]).num <= TriggerVelocity(triggered[i]).den

\* ---------------------------------------------------------------------
\* Routing properties
\* ---------------------------------------------------------------------
\* the nodes a signal entering the nodes of reached can get to
RECURSIVE ReachedFrom(_, _)
ReachedFrom(reached, conn) ==
  LET next == reached \cup {e[2] : e \in {c \in conn : c[1] \in reached}}
  IN  IF next = reached THEN reached ELSE ReachedFrom(next, conn)

\* the live connections: those that carry the signal of the current synth
Live(conn) == {e \in conn : e[1] \in ReachedFrom({"synth"}, conn)}

\* C16: for every combination of filterEnabled and reverbEnabled, enabling delay
\* and then disabling it leaves the live connections to the output identical
\* to the graph built when delay was never enabled: no extra parallel dry path.
C16_DelayOnOffRestoresGraph ==
  lastFx = "delayOnOff" =>
    Live(connections) = ChainEdges(filterEnabled, reverbEnabled, FALSE)

\* C17: after any sequence of changes to the voice and the effect switches the
\* live graph from the current synth to the output is exactly the series chain
\* of the enabled effects, in the order filter, reverb, delay, and only the
\* current synth is alive.
C17_LiveGraphIsEnabledChain ==
  /\ Live(connections) = ChainEdges(filterEnabled, reverbEnabled, delayEnabled)
  /\ liveSynths = 1

C14_SweepAt120Takes32s ==
  sweepTempo = 120 =>
    /\ ramps[1].target = SWEEP_HIGH_FREQ
    /\ ramps[1].endMs.num = 16000 * ramps[1].endMs.den
    /\ ramps[2].target = SWEEP_LOW_FREQ
    /\ ramps[2].startMs = ramps[1].endMs
    /\ ramps[2].endMs.num = 32000 * ramps[2].endMs.den
    /\ sweepTotalSteps = 640
    /\ filterSweepActive <=> sweepElapsed < 32000
    /\ sweepElapsed = UPDATE_INTERVAL * sweepStep
    /\ sweepElapsed = 16000 => filterFreq = SWEEP_HIGH_FREQ
    /\ sweepElapsed = 32000 => filterFreq = SWEEP_LOW_FREQ

\* the sweep triggered at tempo 120 has just cleared its flag
C14_Witness ==
  /\ sweepTempo = 120
  /\ lastFx = "updateUI"
  /\ ~filterSweepActive
  /\ sweepStep = 640
  /\ sweepElapsed = 32000

\* C15: at every tempo in 120..160, once a sweep is active and timers keep
\* firing, filterSweepActive eventually becomes false again.
C15_SweepTerminates == filterSweepActive ~> ~filterSweepActive

\* a sweep triggered at the highest tempo that ran to its end
C15_Witness ==
  /\ sweepTempo = MAX_TEMPO
  /\ lastFx = "updateUI"
  /\ ~filterSweepActive
  /\ sweepStep = sweepTotalSteps
  /\ sweepChains = 0


\* C18: after any sequence of chord-track operations no two chord markers overlap:
\* of two distinct markers one ends at or before the step where the other starts
C18_MarkersDoNotOverlap ==
  \A i, j \in 1..Len(chords) :
    i # j => \/ ChordEnd(chords[i]) <= chords[j].step
             \/ ChordEnd(chords[j]) <= chords[i].step

\* C19: through the bar presets, duplicateSelection and the load of a catalog
\* pattern the selection stays a non-empty range of bars inside the 16 bars:
\* 0 <= selectionStart < selectionEnd <= 16
C19_SelectionWithinBars ==
  /\ 0 <= selectionStart
  /\ selectionStart < selectionEnd
  /\ selectionEnd <= TOTAL_BARS

\* a push on top of a full history whose cursor is at the newest snapshot
PushOnFullHistory ==
  /\ opCount' = opCount + 1
  /\ Len(history) = MAX_HISTORY
  /\ historyIndex = Len(history) - 1

\* C20: after any mutating operation, undo or redo the history holds between 1 and
\* MAX_HISTORY snapshots and the cursor lies within it; a push that would exceed
\* MAX_HISTORY drops the oldest snapshot and leaves the cursor on the newest one
C20_HistoryBounded ==
  [][/\ Len(history') >= 1
     /\ Len(history') <= MAX_HISTORY
     /\ 0 <= historyIndex'
     /\ historyIndex' <= Len(history') - 1
     /\ PushOnFullHistory =>
          /\ history' = Append(Tail(history), notes)
          /\ historyIndex' = Len(history') - 1]_vars

\* a snapshot was dropped, and the history is full with the cursor on the newest
C20_Witness ==
  /\ dropped > 0
  /\ Len(history) = MAX_HISTORY
  /\ historyIndex = MAX_HISTORY - 1

\* a mutating operation that starts with undone snapshots after the cursor
PushAfterUndo ==
  /\ opCount' = opCount + 1
  /\ historyIndex < Len(history) - 1

\* C21: a mutating operation after one or more undo() truncates the redo tail: the
\* undone snapshots leave the history and the cursor is on the last snapshot, so
\* redo() is a no-op and no sequence of redo() reaches an undone state
C21_PushTruncatesRedoTail ==
  [][PushAfterUndo =>
       /\ history' = Append(SubSeq(history, 1, historyIndex + 1), notes)
       /\ historyIndex' = Len(history') - 1
       /\ ~(historyIndex' < Len(history') - 1)]_vars

\* the second mutating operation was made after an undo of the first: the history
\* is one snapshot shorter than the operations made
C21_Witness ==
  /\ uChain = 1
  /\ opCount = 2
  /\ Len(history) = 2
  /\ historyIndex = 1

\* C22: when the audio-context start rejects inside play(), the engine stays
\* STOPPED: isPlaying stays false, currentStep stays -1, play() starts neither the
\* sequence nor the transport, and no start is left pending, so play() can be
\* called again; a play() whose start resolves starts the sequence and the transport
C22_FailedPlayStaysStopped ==
  [][/\ lastOp' = "playFailed" =>
          /\ ~isPlaying /\ ~isPlaying'
          /\ currentStep = -1 /\ currentStep' = -1
          /\ transportState' = "stopped"
          /\ UNCHANGED <<transportState, transportTicks, seqState, seq, bpm>>
          /\ ~playPending'
     /\ lastOp' = "playStarted" =>
          /\ isPlaying'
          /\ transportState' = "started"
          /\ seqState' = "started"]_vars

\* a play() has just failed
C22_Witness == lastOp = "playFailed" /\ ~isPlaying /\ ~playPending

\* C23: in every reachable state isPlaying = false implies currentStep = -1
C23_StoppedShowsNoStep == ~isPlaying => currentStep = -1

\* the non-looping playback has stopped itself at the end of the range
C23_Witness ==
  /\ lastOp = "tick"
  /\ ~isPlaying
  /\ ~isLooping
  /\ tickStep = seq.loopEndStep - 1

\* C24: currentStep is -1 or a step of the pattern, 0 .. TOTAL_STEPS - 1, and every
\* tick's step lies in the loop range [loopStartStep, loopEndStep), whose end is
\* at most TOTAL_STEPS, also after a catalog load has set the range
C24_StepWithinPattern ==
  /\ currentStep = -1 \/ (0 <= currentStep /\ currentStep <= TOTAL_STEPS - 1)
  /\ lastOp = "tick" =>
       /\ seq.loopStartStep <= tickStep
       /\ tickStep < seq.loopEndStep
       /\ seq.loopEndStep <= TOTAL_STEPS

\* C25: after applyPreset(type) the voice is type and the eleven effect fields equal
\* SYNTH_PRESETS[type]; the routing rebuild and the filter update it causes have
\* seen the new voice together with the new effect settings
C25_ApplyPresetIsAtomic ==
  lastFx = "applyPreset" =>
    LET preset == SYNTH_PRESETS[lastPreset]
    IN  /\ synthType = lastPreset
        /\ filterEnabled = preset.filterEnabled
        /\ filterType = preset.filterType
        /\ filterFreq = preset.filterFreq
        /\ delayEnabled = preset.delayEnabled
        /\ reverbEnabled = preset.reverbEnabled
        /\ fxParams = PresetParams(preset)
        /\ cutoff = preset.filterFreq
        /\ ChainEdges(preset.filterEnabled, preset.reverbEnabled, preset.delayEnabled)
             \subseteq connections

\* a preset of another voice has been applied over effects the user had changed
C25_Witness ==
  /\ lastFx = "applyPreset"
  /\ lastPreset = "acidDarkHollow"
  /\ synthType = "acidDarkHollow"
  /\ filterType = "bandpass"

\* C26: the periodic update of the displayed cutoff never writes the frequency
\* parameter of the audio filter node: a run of updateUI leaves the value last
\* written to the node as it was
C26_PollingLeavesFilterNode ==
  [][lastFx' = "updateUI" => cutoff' = cutoff]_vars

\* C27: a running sweep is not cancelled from outside: filterSweepActive turns
\* false only in the final update of the sweep's own timer chain, whatever play,
\* stop, tempo changes, parameter changes, the filter switch and applyPreset do
C27_SweepEndsOnlyByItself ==
  [][filterSweepActive /\ ~filterSweepActive' =>
       /\ lastFx' = "updateUI"
       /\ sweepStep' = sweepTotalSteps]_vars

\* the filter was switched off during a sweep, which is still active
C27_Witness ==
  /\ filterSweepActive
  /\ ~filterEnabled
  /\ sweepStep > 0

\* a create request was handled in this step
Posted == requests' = requests + 1

\* the rules the catalog is said to validate: 1..1000 notes, an integer tempo in
\* 120..160, scale and tags in their enums, rootNote in 0..127
ListedRulesHold(body) ==
  /\ body.notes.count \in 1..1000
  /\ IsInt(body.tempo) /\ body.tempo \in 1200..1600
  /\ body.scale \in ScaleTypeSchema
  /\ \A i \in 1..Len(body.tags) : body.tags[i] \in TagSchema
  /\ body.rootNote \in 0..1270

C29_CreateCappedPerOrigin ==
  [][Posted =>
       /\ (status' = 429 <=> hits[reqOrigin'] >= RATE_MAX)
       /\ (status' = 429 => rows' = rows /\ lastRow' = lastRow)
       /\ \A o \in Origins :
            /\ handled'[o] <= RATE_MAX
            /\ (o # reqOrigin' => handled'[o] = handled[o] /\ hits'[o] = hits[o])]_vars

\* a pattern was stored for one address while another address is over its limit
C29_Witness ==
  /\ status = 201
  /\ rows = 1
  /\ \E o \in Origins : o # reqOrigin /\ hits[o] = RATE_MAX + 1 /\ handled[o] = RATE_MAX

\* C30: two exports with identical inputs (pattern, scale, root, tempo, velocity
\* curve, note-length policy) produce identical note events, and an export
\* changes no pattern or transport state
C30_ExportDeterministic ==
  [][exports' = exports + 1 =>
       /\ (prevExported' # <<>> /\ prevExported'[1].inputs = exported'[1].inputs
             => prevExported'[1].events = exported'[1].events)
       /\ UNCHANGED <<storeVars, engineVars>>]_vars

\* the places the fill copies the note n to: n.step + k * len below TOTAL_STEPS, k >= 1
FillSteps(n, len) ==
  {n.step + k * len : k \in 1..(TOTAL_STEPS \div len)} \cap 0..(TOTAL_STEPS - 1)

\* C31: after loopSelection with a selection [s, e) of length e - s > 0, the note
\* list is the old list, unchanged, followed by copies of selected notes: every
\* added note is a copy of a selected note n at n.step + k * (e - s) < TOTAL_STEPS,
\* k >= 1, at a position the old list left free, outside the selection; and for
\* every selected note, every such position that was free holds exactly one note
\* (the copy made first; a later copy finds the position occupied)
C31_LoopFillResult ==
  lastOp = "loopSelection" =>
    LET s == getSelectionSteps.startStep
        e == getSelectionSteps.endStep
        selected == SelectedNotes(before, s, e)
    IN  /\ e - s > 0
        /\ Len(notes) >= Len(before)
        /\ SubSeq(notes, 1, Len(before)) = before
        /\ \A i \in (Len(before) + 1)..Len(notes) :
             /\ notes[i].step < TOTAL_STEPS
             /\ ~InRange(notes[i], s, e)
             /\ CountAt(before, notes[i].step, notes[i].pitch) = 0
             /\ \E j \in 1..Len(selected) :
                  /\ notes[i].step \in FillSteps(selected[j], e - s)
                  /\ notes[i] = [selected[j] EXCEPT !.step = notes[i].step]
        /\ \A j \in 1..Len(selected) : \A st \in FillSteps(selected[j], e - s) :
             CountAt(before, st, selected[j].pitch) = 0
               => CountAt(notes, st, selected[j].pitch) = 1

\* a fill that copied a note several times and skipped an occupied position
C31_Witness ==
  /\ lastOp = "loopSelection"
  /\ Len(notes) >= Len(before) + 2
  /\ \E j \in 1..Len(before) :
       /\ InRange(before[j], getSelectionSteps.startStep, getSelectionSteps.endStep)
       /\ \E st \in FillSteps(before[j], getSelectionSteps.endStep - getSelectionSteps.startStep) :
            CountAt(before, st, before[j].pitch) > 0

\* new is old with the notes in [s, e) rotated by delta steps inside [s, e): the
\* other notes, every pitch, velocity, length and accent, and the count are kept
Rotated(old, new, s, e, delta) ==
  /\ Len(new) = Len(old)
  /\ \A i \in 1..Len(old) :
       IF InRange(old[i], s, e)
       THEN new[i] = [old[i] EXCEPT !.step = s + ((old[i].step - s + delta) % (e - s))]
       ELSE new[i] = old[i]

\* C32: nudgeLeft (nudgeRight) moves every note of the selection by -1 (+1)
\* step, wrapping at the selection's boundary, leaves the notes outside and every
\* pitch unchanged and keeps the note count; nudgeLeft followed by nudgeRight
\* restores the notes
C32_NudgeIsRotation ==
  [][LET s == getSelectionSteps.startStep
         e == getSelectionSteps.endStep
     IN  /\ (lastOp' = "nudgeLeft" /\ opCount' = opCount + 1
               => Rotated(notes, notes', s, e, -1))
         /\ (lastOp' = "nudgeRight" /\ opCount' = opCount + 1
               => Rotated(notes, notes', s, e, 1))
         /\ (lastOp = "nudgeLeft" /\ lastOp' = "nudgeRight" /\ opCount' = opCount + 1
               => notes' = before)]_vars

\* nudgeLeft wrapped a note from the first step of the selection to its last,
\* next to a note outside the selection, and nudgeRight brought it back
C32_Witness ==
  /\ lastOp = "nudgeRight"
  /\ Len(notes) >= 2
  /\ \E i, j \in 1..Len(notes) :
       /\ notes[i].step = getSelectionSteps.startStep
       /\ before[i].step = getSelectionSteps.endStep - 1
       /\ notes[j].step >= getSelectionSteps.endStep
       /\ before[j] = notes[j]

\* C33: setScale re-quantises by absolute pitch: every note's new degree is
\* midiToNearestScaleDegree(scaleDegreeToMidi(old degree, old scale, root), new
\* scale, root), with the old scale the one active at the call; step, velocity,
\* length and accent and the note count are unchanged, and the scale changes in
\* the same update
C33_SetScaleRequantizes ==
  [][lastOp' = "setScale" /\ opCount' = opCount + 1 =>
       /\ Len(notes') = Len(notes)
       /\ rootNote' = rootNote
       /\ \A i \in 1..Len(notes) :
            notes'[i] =
              [notes[i] EXCEPT !.pitch =
                 midiToNearestScaleDegree(
                   scaleDegreeToMidi(notes[i].pitch, SCALES[scale], rootNote),
                   SCALES[scale'], rootNote)]]_vars

\* a note above the first octave got another degree number under another scale
C33_Witness ==
  /\ lastOp = "setScale"
  /\ scale # beforeScale
  /\ Len(notes) = 1
  /\ before[1].pitch >= Len(SCALES[beforeScale])
  /\ notes[1].pitch # before[1].pitch
  /\ scaleDegreeToMidi(notes[1].pitch, SCALES[scale], rootNote)
       # scaleDegreeToMidi(before[1].pitch, SCALES[beforeScale], rootNote)

\* C34: midiToNearestScaleDegree(midi, scale, root) is octave * n + i with
\* octave = floor((midi - root) / 12), n the number of intervals of the scale and
\* i the lowest index that minimises |intervals[i] - ((midi - root) mod 12)|; the
\* result lies in the octave block octave * n .. octave * n + n - 1
C34_NearestDegree ==
  sePhase = "back" =>
    LET intervals == SCALES[scale]
        n == Len(intervals)
        octave == (seMidi - rootNote) \div 12
        noteInOctave == (seMidi - rootNote) - 12 * octave
        i == seBack - octave * n
        Distance(j) == Abs(intervals[j + 1] - noteInOctave)
    IN  /\ i \in 0..(n - 1)
        /\ \A j \in 0..(n - 1) : Distance(i) <= Distance(j)
        /\ \A j \in 0..(i - 1) : Distance(j) > Distance(i)

\* a MIDI note below the root, half-way between two intervals of the scale, went
\* to the lower of the two
C34_Witness ==
  /\ sePhase = "back"
  /\ seMidi < rootNote
  /\ LET intervals == SCALES[scale]
         n == Len(intervals)
         octave == (seMidi - rootNote) \div 12
         noteInOctave == (seMidi - rootNote) - 12 * octave
         i == seBack - octave * n
     IN  /\ i + 2 <= n
         /\ intervals[i + 1] < noteInOctave
         /\ noteInOctave - intervals[i + 1] = intervals[i + 2] - noteInOctave

\* the loop range or the looping flag the sequence is built from changes in this step
LoopChanged ==
  \/ seq'.loopStartStep # seq.loopStartStep
  \/ seq'.loopEndStep # seq.loopEndStep
  \/ seq'.isLooping # seq.isLooping

C36_ChordWithinTrack ==
  \A i \in 1..Len(chords) :
    /\ chords[i].step \in 0..(TOTAL_STEPS - 1)
    /\ chords[i].duration >= MIN_CHORD_DURATION
    /\ chords[i].step + chords[i].duration <= TOTAL_STEPS

\* C37: cutSelection removes exactly the notes with step in [startStep, endStep);
\* and for a duplicate-free note list and a selection that holds at least one
\* note, cutSelection followed at once by pasteAtSelection gives back the same
\* notes (steps and attributes)
C37_CutPasteRoundTrip ==
  [][LET s == getSelectionSteps.startStep
         e == getSelectionSteps.endStep
     IN  /\ (lastOp' = "cutSelection" /\ opCount' = opCount + 1 =>
               /\ \A i \in 1..Len(notes') : ~InRange(notes'[i], s, e)
               /\ \A i \in 1..Len(notes) :
                    ~InRange(notes[i], s, e) => CountOf(notes', notes[i]) = CountOf(notes, notes[i])
               /\ Len(notes') = Len(OutsideNotes(notes, s, e)))
         /\ ((lastOp = "cutSelection" /\ lastOp' = "pasteAtSelection"
               /\ opCount' = opCount + 1 /\ Unique(before)
               /\ Len(SelectedNotes(before, s, e)) > 0)
             => SameNotes(notes', before))]_vars

\* a cut and a paste on a selection that does not start at step 0, which brought
\* back the note the cut had removed
C37_Witness ==
  /\ lastOp = "pasteAtSelection"
  /\ getSelectionSteps.startStep > 0
  /\ \E i \in 1..Len(notes) :
       InRange(notes[i], getSelectionSteps.startStep, getSelectionSteps.endStep)
  /\ Len(before) < Len(notes)
  /\ Len(history) >= 2
  /\ SameNotes(notes, history[Len(history) - 1])

\* this step is an undo or a redo that moved the history cursor
UndoStep == lastOp' = "undo" /\ historyIndex' = historyIndex - 1

RedoStep == lastOp' = "redo" /\ historyIndex' = historyIndex + 1

\* undo and redo leave scale, root, tempo, chord markers, selection and clipboard alone
HistoryFrame ==
  [][UndoStep \/ RedoStep =>
       UNCHANGED <<scale, rootNote, tempo, chords, selectionStart, selectionEnd, clipboard>>]_vars

\* C38: undo and redo change only the notes and the history cursor: scale, root,
\* tempo, chord markers, selection and clipboard stay as they are, so that the
\* undo of a setScale, loadPattern or clearPattern brings back the notes the
\* operation started from, but not the scale, root, tempo or chords
C38_HistoryFrame ==
  [][/\ (UndoStep \/ RedoStep =>
           UNCHANGED <<scale, rootNote, tempo, chords, selectionStart, selectionEnd, clipboard>>)
     /\ (UndoStep /\ lastOp \in {"setScale", "loadPattern", "clearPattern"} =>
           SameNotes(notes', before))]_vars

\* C39: at every tempo in 120..160 every cutoff value an update of the sweep
\* displays lies in SWEEP_LOW_FREQ .. SWEEP_HIGH_FREQ; the displayed value rises
\* from update to update during the first half of the updates and falls during
\* the second half; and the final update, which clears filterSweepActive,
\* displays exactly SWEEP_LOW_FREQ
C39_SweepDisplayTriangle ==
  [][lastFx' = "updateUI" /\ sweepStep' = sweepStep + 1 =>
       /\ filterFreq' >= SWEEP_LOW_FREQ
       /\ filterFreq' <= SWEEP_HIGH_FREQ
       /\ (2 * sweepStep' <= sweepTotalSteps => filterFreq' > filterFreq)
       /\ (2 * sweepStep' > sweepTotalSteps => filterFreq' <= filterFreq)
       /\ (2 * sweepStep > sweepTotalSteps => filterFreq' < filterFreq)
       /\ (filterSweepActive /\ ~filterSweepActive' => filterFreq' = SWEEP_LOW_FREQ)]_vars

\* a sweep with an odd number of updates, which never shows SWEEP_HIGH_FREQ, has
\* made its final update
C39_Witness ==
  /\ lastFx = "updateUI"
  /\ ~filterSweepActive
  /\ sweepStep = sweepTotalSteps
  /\ sweepTotalSteps % 2 = 1
  /\ filterFreq = SWEEP_LOW_FREQ

====
